---- MODULE Spec2Model ----
(***************************************************************************)
(* Model of the versioned migration engine and the scoped-transaction      *)
(* helper of go-drive (src/internal/postgres/rls.go): Connection.          *)
(* WithTransaction, Migrator.Apply, applyMigration, GetAppliedMigrations,  *)
(* ensureMigrationsTable, run by one or two Migrator processes against     *)
(* one PostgreSQL database.                                                *)
(***************************************************************************)
EXTENDS Integers, Sequences, FiniteSets, TLC

VARIABLES
    procs,        \* the Migrator processes that run against the database
    tableExists,  \* schema_migrations exists
    ledger,       \* committed rows of schema_migrations: version -> number of rows
    appliedAt,    \* the applied_at of the committed row of each version
    schema,       \* committed schema changes: version -> times its body was persisted
    pc,           \* position of each process in Apply / WithTransaction
    migrations,   \* the []Migration slice handed to Apply (sorted in place)
    idx,          \* position of the range loop of Apply in migrations
    appliedMap,   \* the appliedMap of Apply: versions read from the ledger
    snapshot,     \* history: versions really in the ledger when it was read
    tx,           \* the *sql.Tx of the running WithTransaction
    fnRet,        \* what fn returned to WithTransaction ("unset" before)
    wtRet,        \* what WithTransaction returned to applyMigration
    result,       \* what Apply returned
    trace,        \* history: the database calls of the current run, in order
    runNo,        \* number of Apply invocations each process has started
    inputSorted,  \* history: the slice was handed to Apply already sorted
    prev,         \* history: summary of the previous finished run
    panicValue,   \* the value fn panicked with, and the one WithTransaction re-raised
    ctx,          \* the context.Context handed to Apply
    shipped,      \* the migrations handed to Apply can be the shipped SQL files
    provisioning, \* an operator provisions access control on the database
    tables,       \* the managed tables that exist
    roles,        \* pg_roles: role name -> password, or NoRole
    policies,     \* pg_policies: <<policy name, table>> -> policy, or NoPolicy
    grants,       \* table privileges held: <<table, role, privilege>>
    rlsEnabled,   \* the tables with row level security enabled
    call,         \* the provisioning call in progress, or the last one returned
    opNo,         \* number of provisioning calls started
    objects,      \* extensions, constraints, functions and triggers of the schema
    lastCall,     \* history: what the call before this one reported and did
    conn,         \* the *Connection a service holds and the pool of its sql.DB
    closeCall,    \* history: the last Connection.Close call and what it found
    svc,          \* the last request the UserService served, and its reply
    userRows      \* the rows of the users table the repository has inserted

vars == <<procs, tableExists, ledger, appliedAt, schema, pc, migrations, idx, appliedMap,
          snapshot, tx, fnRet, wtRet, result, trace, runNo, inputSorted, prev,
          panicValue, ctx, shipped, provisioning, tables, roles, policies, grants, rlsEnabled,
          call, opNo, objects, lastCall, conn, closeCall, svc, userRows>>

\* The state of the access-control provisioning layer.
accessVars == <<provisioning, tables, roles, policies, grants, rlsEnabled, call, opNo,
                objects, lastCall>>

\* The state of a service process: its Connection and its UserService.
serviceVars == <<conn, closeCall, svc, userRows>>

----------------------------------------------------------------------------
(* Bounds of the model. *)

MaxLen == 3        \* longest migration list handed to Apply by a lone Migrator
MaxRuns == 2       \* Apply invocations of a lone Migrator
MaxLenConc == 2    \* longest migration list when two Migrators race

\* Versions are strings; a string is modelled as its sequence of digits, so
\* that "1" < "10" < "2" under Go's string comparison.
Versions == { <<1>>, <<1, 0>>, <<2>> }

NoVersion == << >>

Bodies == { "ddl" }

Migration == [Version : Versions, SQL : Bodies]

\* The body of the shipped SQL migration files and of the documented
\* template: the schema change, then the file's own ledger entry.
SelfRecording ==
    "ddl; INSERT INTO schema_migrations (version, description) ON CONFLICT (version) DO NOTHING"

\* The migrations a caller builds from hand-written bodies and from the
\* shipped files.
ShippedMigration == [Version : Versions, SQL : Bodies \cup { SelfRecording }]

AllProcs == { 1, 2 }

RECURSIVE SeqsUpTo(_, _)
SeqsUpTo(S, n) ==
    IF n = 0 THEN { << >> }
    ELSE LET shorter == SeqsUpTo(S, n - 1)
         IN  shorter \cup { Append(s, x) : s \in { t \in shorter : Len(t) = n - 1 }, x \in S }

Range(s) == { s[i] : i \in 1..Len(s) }

----------------------------------------------------------------------------
(* Errors.  An error value is its wrap chain, outermost frame first; nil is *)
(* the empty chain.  A frame is <<message, version argument, error printed  *)
(* with %v>>: fmt.Errorf's %w puts the wrapped error next in the chain,     *)
(* while %v only prints it into the message.                                *)

Nil == << >>

DriverError(what) == << <<what, NoVersion, Nil>> >>

\* fmt.Errorf(msg + ": %w", err)
Errorf(msg, err) == << <<msg, NoVersion, Nil>> >> \o err

\* errors.Unwrap
Unwrap(err) == IF err = Nil THEN Nil ELSE Tail(err)

\* errors.Is(err, target): target is err, or an error reached from err by
\* Unwrap.  An error that was only printed into a message with %v is not.
RECURSIVE Is(_, _)
Is(err, target) ==
    IF err = Nil THEN FALSE
    ELSE err = target \/ Is(Unwrap(err), target)

\* fmt.Errorf("failed to apply migration %s: %w", migration.Version, err)
ApplyErrorf(version, err) == << <<"failed to apply migration", version, Nil>> >> \o err

\* fmt.Errorf("transaction error: %v, rollback error: %w", err, rbErr)
RollbackErrorf(err, rbErr) ==
    << <<"transaction error, rollback error", NoVersion, err>> >> \o rbErr

\* Marks a return value that has not been produced yet.
Unset == << <<"unset", NoVersion, Nil>> >>

----------------------------------------------------------------------------
(* Go's string comparison on versions, and sort.Slice with it. *)

RECURSIVE StringLess(_, _)
StringLess(a, b) ==
    IF b = << >> THEN FALSE
    ELSE IF a = << >> THEN TRUE
    ELSE IF Head(a) # Head(b) THEN Head(a) < Head(b)
    ELSE StringLess(Tail(a), Tail(b))

\* The number a version string spells.
RECURSIVE NumericValue(_)
NumericValue(s) ==
    IF s = << >> THEN 0 ELSE 10 * NumericValue(SubSeq(s, 1, Len(s) - 1)) + s[Len(s)]

\* Mutant of MigrationLess: versions compared as numbers, not as strings.
MigrationLessNumeric(a, b) == NumericValue(a.Version) < NumericValue(b.Version)

\* the less function given to sort.Slice
MigrationLess(a, b) == StringLess(a.Version, b.Version)

RECURSIVE InsertSorted(_, _)
InsertSorted(m, s) ==
    IF s = << >> THEN << m >>
    ELSE IF MigrationLess(m, Head(s)) THEN << m >> \o s
    ELSE << Head(s) >> \o InsertSorted(m, Tail(s))

RECURSIVE SortSlice(_)
SortSlice(ms) ==
    IF ms = << >> THEN << >>
    ELSE InsertSorted(Head(ms), SortSlice(Tail(ms)))

----------------------------------------------------------------------------
(* The database. *)

NoTx == [st |-> "none", v |-> NoVersion, body |-> FALSE, row |-> FALSE]

\* applied_at is time.Now() at the insert; a time is modelled as the Apply
\* run it falls in, <<Migrator, number of the run>>.
NeverApplied == << >>

\* The time of a row that an earlier deployment inserted.
EarlierDeployment == <<0, 0>>

\* The rows of a version -> count table as a sequence, in any order.
RECURSIVE RowsOf(_, _)
RowsOf(l, vs) ==
    IF vs = {} THEN << >>
    ELSE LET v == CHOOSE x \in vs : TRUE
         IN  IF l[v] = 0 THEN RowsOf(l, vs \ {v})
             ELSE << [Version |-> v] >> \o RowsOf([l EXCEPT ![v] = l[v] - 1], vs)

\* SELECT version, applied_at, description FROM schema_migrations ORDER BY version
SelectLedger(l) == SortSlice(RowsOf(l, Versions))

InLedger == { v \in Versions : ledger[v] > 0 }

\* Mutant of PrimaryKeyViolation: the table has no primary key.
PrimaryKeyAbsent(p, v) == FALSE

\* version VARCHAR(255) PRIMARY KEY: an INSERT of a version that a committed
\* row, or a row of the inserting transaction itself, already holds fails.
PrimaryKeyViolation(p, v) == ledger[v] > 0 \/ (tx[p].row /\ tx[p].v = v)

\* An INSERT of a version that another open transaction has inserted waits
\* until that transaction commits or rolls back.
PrimaryKeyWait(p, v) ==
    \E q \in procs \ {p} : tx[q].st = "open" /\ tx[q].row /\ tx[q].v = v

----------------------------------------------------------------------------
(* The objects of the access-control provisioning layer. *)

MaxOps == 2        \* provisioning calls of an operator working alone
MaxPerms == 3      \* longest privilege list handed to Grant/RevokeTablePermissions

\* domain.User, domain.Folder, domain.File
ManagedTables == { "users", "folders", "files" }

\* The tables handed to the RLSManager.
InputTables == { "users", "files" }

\* The role names handed to the RLSManager: one spelled in lower case, one
\* with an upper-case letter.
RoleNames == { "user_service", "Analytics" }

Passwords == { "pw1", "pw2" }

\* The roles, with their passwords, that CreateServiceRoles declares.
ServiceRoles ==
    << [name |-> "user_service", password |-> "user_service_password"],
       [name |-> "file_service", password |-> "file_service_password"],
       [name |-> "analytics_reader", password |-> "analytics_password"] >>

\* SetupServiceRLS: fmt.Sprintf("%s_all_%s", serviceName, tableName) and
\* fmt.Sprintf("%s_select_%s", serviceName, tableName).
SetupPolicyName(serviceName, tableName, fullAccess) ==
    serviceName \o (IF fullAccess THEN "_all_" ELSE "_select_") \o tableName

\* PostgreSQL folds an identifier that is not double-quoted to lower case:
\* CREATE ROLE Analytics creates the role analytics, and a policy name made
\* from Analytics is stored with analytics in its place.  A string passed as
\* a query parameter or written as a literal is compared as it is.
Fold(name) ==
    IF name = "Analytics" THEN "analytics"
    ELSE LET made == { tf \in InputTables \X BOOLEAN :
                          name = SetupPolicyName("Analytics", tf[1], tf[2]) }
         IN  IF made = {} THEN name
             ELSE LET tf == CHOOSE tf \in made : TRUE
                  IN  SetupPolicyName("analytics", tf[1], tf[2])

\* The role names pg_roles can hold in this model.
PgRoleNames ==
    { Fold(n) : n \in RoleNames } \cup { ServiceRoles[i].name : i \in DOMAIN ServiceRoles }

NoRole == "no role"

Privileges == { "SELECT", "INSERT", "UPDATE", "DELETE" }

\* The privileges that occur in the lists handed to the RLSManager.
InputPrivileges == { "SELECT", "UPDATE" }

PolicyNames == { "tenant_rows", "audit_rows" }

\* PolicyConfig
PolicyConfig ==
    [Name : PolicyNames, Table : InputTables, Command : { "ALL", "SELECT" },
     Role : RoleNames, Using : { "true" }, WithCheck : { "", "true" }]

\* The policies SetupServiceRLS can ask for.
SetupPolicy(serviceName, tableName, fullAccess) ==
    [Name |-> SetupPolicyName(serviceName, tableName, fullAccess),
     Table |-> tableName,
     Command |-> IF fullAccess THEN "ALL" ELSE "SELECT",
     Role |-> serviceName,
     Using |-> "true",
     WithCheck |-> ""]

\* pg_policies identifies a policy by its name and its table.
PolicyKey(cfg) == <<Fold(cfg.Name), cfg.Table>>

PolicyKeys ==
    (PolicyNames \X InputTables)
    \cup { PolicyKey(SetupPolicy(r, t, f)) : r \in RoleNames, t \in InputTables,
                                             f \in BOOLEAN }

NoPolicy == [Command |-> "none", Role |-> "none", Using |-> "none", WithCheck |-> "none"]

\* What CREATE POLICY stores for a PolicyConfig.
PolicyOf(cfg) ==
    [Command |-> cfg.Command, Role |-> Fold(cfg.Role), Using |-> cfg.Using,
     WithCheck |-> cfg.WithCheck]

\* SELECT EXISTS(SELECT FROM pg_roles WHERE rolname = $1)
RoleExists(name) == name \in PgRoleNames /\ roles[name] # NoRole

\* The role that the identifier name denotes in a statement exists.
RoleDefined(name) == roles[Fold(name)] # NoRole

\* The privileges a role holds on a table.
GrantedOn(table, role) == { perm \in Privileges : <<table, role, perm>> \in grants }

\* Row level security lets a role that does not own the table run a command
\* on it when the table has no row level security, or has a policy for the
\* role whose command is ALL or that command (the predicates are all true).
PolicyPermits(role, table, command) ==
    \/ table \notin rlsEnabled
    \/ \E k \in PolicyKeys :
          /\ k[2] = table
          /\ policies[k] # NoPolicy
          /\ policies[k].Role = role
          /\ policies[k].Command \in { "ALL", command }

\* A connection authenticated as role can run command on table: the role
\* holds the privilege and row level security lets it through.
CanPerform(role, table, command) ==
    /\ table \in tables
    /\ roles[role] # NoRole
    /\ command \in GrantedOn(table, role)
    /\ PolicyPermits(role, table, command)

\* No call was made before this one.
NoLastCall == [op |-> "none", report |-> << >>, outcome |-> "none"]

\* context.Background(): a context that is never cancelled.
Background == "background"

\* A context that can be cancelled, before and after its cancellation.
Live == "live"

Canceled == "canceled"

\* No provisioning call: the operator is idle.
NoCall ==
    [op |-> "none", pc |-> "idle", args |-> << >>, i |-> 0, ret |-> Unset,
     stmts |-> << >>, before |-> << >>]

----------------------------------------------------------------------------
(* Initial state: a fresh database and idle Migrators. *)

NoRun == << <<"no run", NoVersion, Nil>> >>

Panicked == << <<"panic", NoVersion, Nil>> >>

\* The values fn can panic with: the fault raised while the body is
\* executed and the one raised while the ledger row is inserted are
\* different values.  recover() returns each of them as a non-nil value.
PanicValues == { "panic in body", "panic in insert" }

NoPanic == "none"

NotPanicking == [fn |-> NoPanic, out |-> NoPanic]

\* The access-control objects of the database the processes start on: the
\* managed tables exist and an earlier deployment has created user_service.
AccessInit(operator) ==
    /\ provisioning = operator
    /\ tables = ManagedTables
    /\ roles = [n \in PgRoleNames |-> IF n = "user_service" THEN "pw1" ELSE NoRole]
    /\ policies = [k \in PolicyKeys |-> NoPolicy]
    /\ grants = {}
    /\ rlsEnabled = {}
    /\ call = NoCall
    /\ opNo = 0
    /\ objects = {}
    /\ lastCall = NoLastCall

\* The Migrators ps on a database to which the versions applied were
\* applied before.
MigratorsInit(ps, applied) ==
    /\ procs = ps
    /\ tableExists = (applied # {})
    /\ ledger = [v \in Versions |-> IF v \in applied THEN 1 ELSE 0]
    /\ appliedAt = [v \in Versions |->
                       IF v \in applied THEN EarlierDeployment ELSE NeverApplied]
    /\ schema = [v \in Versions |-> IF v \in applied THEN 1 ELSE 0]
    /\ pc = [p \in AllProcs |-> "idle"]
    /\ migrations = [p \in AllProcs |-> << >>]
    /\ idx = [p \in AllProcs |-> 1]
    /\ appliedMap = [p \in AllProcs |-> {}]
    /\ snapshot = [p \in AllProcs |-> {}]
    /\ tx = [p \in AllProcs |-> NoTx]
    /\ fnRet = [p \in AllProcs |-> Unset]
    /\ wtRet = [p \in AllProcs |-> Unset]
    /\ result = [p \in AllProcs |-> Unset]
    /\ trace = [p \in AllProcs |-> << >>]
    /\ runNo = [p \in AllProcs |-> 0]
    /\ inputSorted = [p \in AllProcs |-> TRUE]
    /\ prev = [p \in AllProcs |-> [declared |-> {}, result |-> NoRun]]
    /\ panicValue = [p \in AllProcs |-> NotPanicking]

\* What a service holds before NewConnection.  ref is "unset", "nil" (the
\* nil *Connection of a failed NewConnection) or "set"; DB is "nil", "open"
\* or "closed"; pool counts the connections the sql.DB holds.
NoConnection == [ref |-> "unset", DB |-> "nil", pool |-> 0]

NoCloseCall == [outcome |-> "none", ret |-> Unset, before |-> NoConnection]

NoRequest == [op |-> "none", req |-> << >>, repo |-> << >>, code |-> "none", reply |-> << >>]

\* A service process that has not opened its connection.
ServiceInit ==
    /\ conn = NoConnection
    /\ closeCall = NoCloseCall
    /\ svc = NoRequest
    /\ userRows = {}

\* Every migration handed to Apply has a hand-written body.
HandWritten == shipped = FALSE

InitFor(ps) == MigratorsInit(ps, {}) /\ HandWritten /\ AccessInit(FALSE) /\ ctx = Background /\ ServiceInit

Init == InitFor({1})

InitConc == InitFor(AllProcs)

\* An operator of the provisioning layer and no Migrator.
InitRLS == MigratorsInit({}, {}) /\ HandWritten /\ AccessInit(TRUE) /\ ctx = Background /\ ServiceInit

\* A Migrator and an operator of the provisioning layer, on a database to
\* which version "1" was applied before.
InitCore == MigratorsInit({1}, { <<1>> }) /\ HandWritten /\ AccessInit(TRUE) /\ ctx = Background /\ ServiceInit

\* A Migrator whose context can be cancelled while Apply runs, on a database
\* to which version "1" was applied before.
InitCancel == MigratorsInit({1}, { <<1>> }) /\ HandWritten /\ AccessInit(FALSE) /\ ctx = Live /\ ServiceInit

\* A service process alone on the database.
InitService == MigratorsInit({}, {}) /\ HandWritten /\ AccessInit(FALSE) /\ ctx = Background /\ ServiceInit

\* A Migrator that is handed hand-written migrations and shipped SQL files,
\* on a database to which version "1" was applied before.
InitShipped ==
    MigratorsInit({1}, { <<1>> }) /\ shipped = TRUE /\ AccessInit(FALSE) /\ ctx = Background /\ ServiceInit

\* One Migrator has the database to itself and runs to the end.
Lone == Cardinality(procs) = 1 /\ ~provisioning /\ ctx = Background /\ ~shipped

Inputs ==
    SeqsUpTo(IF shipped THEN ShippedMigration ELSE Migration,
             IF Lone THEN MaxLen ELSE MaxLenConc)

\* A lone Migrator is run again and again; of two racing Migrators each is
\* one process that calls Apply once, and so is a Migrator next to an
\* operator of the provisioning layer.
RunLimit == IF Lone THEN MaxRuns ELSE 1

Declared(p) == { migrations[p][i].Version : i \in 1..Len(migrations[p]) }

Current(p) == migrations[p][idx[p]]

Log(p, events) == [trace EXCEPT ![p] = trace[p] \o events]

----------------------------------------------------------------------------
(* Migrator.Apply up to the range loop. *)

\* A caller invokes Apply(ctx, ms).
ApplyStart(p) ==
    /\ pc[p] = "idle"
    /\ call.pc = "idle"
    /\ runNo[p] < RunLimit
    /\ \E ms \in Inputs : migrations' = [migrations EXCEPT ![p] = ms]
    /\ runNo' = [runNo EXCEPT ![p] = runNo[p] + 1]
    /\ pc' = [pc EXCEPT ![p] = "ensure"]
    /\ UNCHANGED <<accessVars, serviceVars, ctx, procs, shipped, panicValue, tableExists, ledger, appliedAt, schema, idx, appliedMap, snapshot,
                   tx, fnRet, wtRet, result, trace, inputSorted, prev>>

\* Mutant of EnsureMigrationsTable: the table is dropped and created anew.
EnsureMigrationsTableRecreates(p) ==
    /\ pc[p] = "ensure"
    /\ \/ /\ tableExists' = TRUE
          /\ ledger' = [v \in Versions |-> 0]
          /\ appliedAt' = [v \in Versions |-> NeverApplied]
          /\ pc' = [pc EXCEPT ![p] = "load"]
          /\ trace' = Log(p, << <<"Ensure", NoVersion>> >>)
          /\ UNCHANGED result
       \/ /\ result' = [result EXCEPT ![p] =
                 Errorf("failed to create migrations table", DriverError("exec"))]
          /\ pc' = [pc EXCEPT ![p] = "returned"]
          /\ trace' = Log(p, << <<"EnsureErr", NoVersion>> >>)
          /\ UNCHANGED <<tableExists, ledger, appliedAt>>
    /\ UNCHANGED <<accessVars, serviceVars, ctx, procs, shipped, panicValue, schema, migrations, idx, appliedMap,
                   snapshot, tx, fnRet, wtRet, runNo, inputSorted, prev>>

\* ensureMigrationsTable: CREATE TABLE IF NOT EXISTS schema_migrations, and
\* Apply returning its error.
EnsureMigrationsTable(p) ==
    /\ pc[p] = "ensure"
    /\ \/ /\ ctx # Canceled
          /\ tableExists' = TRUE
          /\ pc' = [pc EXCEPT ![p] = "load"]
          /\ trace' = Log(p, << <<"Ensure", NoVersion>> >>)
          /\ UNCHANGED result
       \/ /\ result' = [result EXCEPT ![p] =
                 Errorf("failed to create migrations table", DriverError("exec"))]
          /\ pc' = [pc EXCEPT ![p] = "returned"]
          /\ trace' = Log(p, << <<"EnsureErr", NoVersion>> >>)
          /\ UNCHANGED tableExists
    /\ UNCHANGED <<accessVars, serviceVars, ctx, procs, shipped, panicValue, ledger, appliedAt, schema, migrations, idx, appliedMap, snapshot,
                   tx, fnRet, wtRet, runNo, inputSorted, prev>>

\* What GetAppliedMigrations can return with a nil error: every row, or, when
\* rows.Next() stops on an error (rows.Err() is never consulted), the rows
\* scanned before it.
ReadableRecords(rows) ==
    { SubSeq(rows, 1, k) : k \in 0..Len(rows) }

\* GetAppliedMigrations, and then in Apply: the appliedMap and the sort.
GetAppliedMigrations(p) ==
    /\ pc[p] = "load"
    /\ LET rows == SelectLedger(ledger)
       IN  \/ \E records \in ReadableRecords(rows) :
                /\ ctx # Canceled
                /\ appliedMap' = [appliedMap EXCEPT ![p] = { r.Version : r \in Range(records) }]
                /\ snapshot' = [snapshot EXCEPT ![p] = InLedger]
                /\ migrations' = [migrations EXCEPT ![p] = SortSlice(migrations[p])]
                /\ inputSorted' = [inputSorted EXCEPT ![p] =
                       SortSlice(migrations[p]) = migrations[p]]
                /\ idx' = [idx EXCEPT ![p] = 1]
                /\ pc' = [pc EXCEPT ![p] = "loop"]
                /\ trace' = Log(p, << <<IF records = rows THEN "Load" ELSE "LoadTrunc",
                                        NoVersion>> >>)
                /\ UNCHANGED result
           \/ \E what \in { "failed to query migrations" }
                          \cup (IF rows = << >> THEN {} ELSE { "failed to scan migration record" }) :
                /\ result' = [result EXCEPT ![p] = Errorf(what, DriverError("query"))]
                /\ pc' = [pc EXCEPT ![p] = "returned"]
                /\ trace' = Log(p, << <<"LoadErr", NoVersion>> >>)
                /\ UNCHANGED <<appliedMap, snapshot, migrations, idx, inputSorted>>
    /\ UNCHANGED <<accessVars, serviceVars, ctx, procs, shipped, panicValue, tableExists, ledger, appliedAt, schema, tx, fnRet, wtRet, runNo, prev>>

----------------------------------------------------------------------------
(* The range loop of Apply. *)

\* Mutant of IsApplied: the applied versions are not consulted.
IsAppliedNever(p, m) == FALSE

\* Mutant of IsApplied: the ledger is read as a high-water mark, and a
\* version below the highest applied one counts as applied.
IsAppliedUpToHighest(p, m) ==
    \/ m.Version \in appliedMap[p]
    \/ \E w \in appliedMap[p] : StringLess(m.Version, w)

\* Mutant of IsApplied: the ledger is consulted anew for every migration.
IsAppliedRefreshed(p, m) == m.Version \in appliedMap[p] \/ ledger[m.Version] > 0

\* appliedMap[migration.Version]
IsApplied(p, m) == m.Version \in appliedMap[p]

\* The loop is past the last migration: Apply returns nil.
LoopDone(p) ==
    /\ pc[p] = "loop"
    /\ idx[p] > Len(migrations[p])
    /\ result' = [result EXCEPT ![p] = Nil]
    /\ pc' = [pc EXCEPT ![p] = "returned"]
    /\ UNCHANGED <<accessVars, serviceVars, ctx, procs, shipped, panicValue, tableExists, ledger, appliedAt, schema, migrations, idx, appliedMap,
                   snapshot, tx, fnRet, wtRet, trace, runNo, inputSorted, prev>>

\* if appliedMap[migration.Version] { continue }
LoopSkip(p) ==
    /\ pc[p] = "loop"
    /\ idx[p] <= Len(migrations[p])
    /\ IsApplied(p, Current(p))
    /\ idx' = [idx EXCEPT ![p] = idx[p] + 1]
    /\ UNCHANGED <<accessVars, serviceVars, ctx, procs, shipped, panicValue, tableExists, ledger, appliedAt, schema, pc, migrations, appliedMap,
                   snapshot, tx, fnRet, wtRet, result, trace, runNo, inputSorted, prev>>

\* Mutant of ApplyMigrationReturned: Apply returns nil right after the first
\* migration it applied.
ApplyMigrationReturnedOnce(p, err, events) ==
    /\ wtRet' = [wtRet EXCEPT ![p] = err]
    /\ result' = [result EXCEPT ![p] =
           IF err # Nil THEN ApplyErrorf(Current(p).Version, err) ELSE Nil]
    /\ pc' = [pc EXCEPT ![p] = "returned"]
    /\ trace' = Log(p, IF err # Nil THEN events
                       ELSE events \o << <<"Applied", Current(p).Version>> >>)
    /\ UNCHANGED idx

\* Mutant of ApplyMigrationReturned: a failing migration is reported and the
\* loop goes on with the next one.
ApplyMigrationReturnedContinues(p, err, events) ==
    /\ wtRet' = [wtRet EXCEPT ![p] = err]
    /\ trace' = Log(p, IF err # Nil THEN events
                       ELSE events \o << <<"Applied", Current(p).Version>> >>)
    /\ idx' = [idx EXCEPT ![p] = idx[p] + 1]
    /\ pc' = [pc EXCEPT ![p] = "loop"]
    /\ UNCHANGED result

\* What Apply does with the error applyMigration returned: wrap it with the
\* version and return, or report the migration and go on with the next one.
ApplyMigrationReturned(p, err, events) ==
    /\ wtRet' = [wtRet EXCEPT ![p] = err]
    /\ IF err # Nil
       THEN /\ result' = [result EXCEPT ![p] = ApplyErrorf(Current(p).Version, err)]
            /\ pc' = [pc EXCEPT ![p] = "returned"]
            /\ trace' = Log(p, events)
            /\ UNCHANGED idx
       ELSE /\ trace' = Log(p, events \o << <<"Applied", Current(p).Version>> >>)
            /\ idx' = [idx EXCEPT ![p] = idx[p] + 1]
            /\ pc' = [pc EXCEPT ![p] = "loop"]
            /\ UNCHANGED result

----------------------------------------------------------------------------
(* Connection.WithTransaction around the closure of applyMigration. *)

\* applyMigration -> WithTransaction: c.DB.BeginTx.
BeginTx(p) ==
    /\ pc[p] = "loop"
    /\ idx[p] <= Len(migrations[p])
    /\ ~IsApplied(p, Current(p))
    /\ LET v == Current(p).Version
       IN  \/ /\ ctx # Canceled
              /\ tx' = [tx EXCEPT ![p] = [st |-> "open", v |-> v,
                                           body |-> FALSE, row |-> FALSE]]
              /\ fnRet' = [fnRet EXCEPT ![p] = Unset]
              /\ wtRet' = [wtRet EXCEPT ![p] = Unset]
              /\ pc' = [pc EXCEPT ![p] = "fn_exec"]
              /\ trace' = Log(p, << <<"BeginTx", v>> >>)
              /\ UNCHANGED <<idx, result>>
           \/ /\ tx' = [tx EXCEPT ![p] = [NoTx EXCEPT !.v = v]]
              /\ fnRet' = [fnRet EXCEPT ![p] = Unset]
              /\ ApplyMigrationReturned(p,
                     Errorf("failed to begin transaction", DriverError("begin")),
                     << <<"BeginTxErr", v>> >>)
    /\ UNCHANGED <<accessVars, serviceVars, ctx, procs, shipped, panicValue, tableExists, ledger, appliedAt, schema, migrations, appliedMap,
                   snapshot, runNo, inputSorted, prev>>

\* Mutant of ExecMigrationSQL: the error of the body is dropped and fn goes
\* on to record the migration.
ExecMigrationSQLIgnoresError(p) ==
    /\ pc[p] = "fn_exec"
    /\ LET v == tx[p].v
       IN  \/ /\ tx' = [tx EXCEPT ![p].body = TRUE]
              /\ pc' = [pc EXCEPT ![p] = "fn_record"]
              /\ trace' = Log(p, << <<"ExecSQL", v>> >>)
              /\ UNCHANGED panicValue
           \/ /\ pc' = [pc EXCEPT ![p] = "fn_record"]
              /\ trace' = Log(p, << <<"ExecSQLErr", v>> >>)
              /\ UNCHANGED panicValue
              /\ UNCHANGED tx
           \/ /\ pc' = [pc EXCEPT ![p] = "recover"]
              /\ trace' = Log(p, << <<"Panic", v>> >>)
              /\ panicValue' = [panicValue EXCEPT ![p].fn = "panic in body"]
              /\ UNCHANGED tx
    /\ UNCHANGED <<accessVars, serviceVars, ctx, procs, shipped, tableExists, ledger, appliedAt, schema, migrations, idx, appliedMap,
                   snapshot, fnRet, wtRet, result, runNo, inputSorted, prev>>

\* Mutant of ExecMigrationSQL: the body is executed on the pool (c.DB), not
\* on the transaction, so it is durable at once.
ExecMigrationSQLOutsideTx(p) ==
    /\ pc[p] = "fn_exec"
    /\ LET v == tx[p].v
       IN  \/ /\ schema' = [schema EXCEPT ![v] = @ + 1]
              /\ pc' = [pc EXCEPT ![p] = "fn_record"]
              /\ trace' = Log(p, << <<"ExecSQL", v>> >>)
              /\ UNCHANGED panicValue
              /\ UNCHANGED fnRet
           \/ /\ fnRet' = [fnRet EXCEPT ![p] =
                     Errorf("failed to execute migration SQL", DriverError("exec"))]
              /\ pc' = [pc EXCEPT ![p] = "rollback"]
              /\ trace' = Log(p, << <<"ExecSQLErr", v>> >>)
              /\ UNCHANGED panicValue
              /\ UNCHANGED schema
           \/ /\ pc' = [pc EXCEPT ![p] = "recover"]
              /\ trace' = Log(p, << <<"Panic", v>> >>)
              /\ panicValue' = [panicValue EXCEPT ![p].fn = "panic in body"]
              /\ UNCHANGED <<schema, fnRet>>
    /\ UNCHANGED <<accessVars, serviceVars, ctx, procs, shipped, tableExists, ledger, appliedAt, tx, migrations, idx, appliedMap,
                   snapshot, wtRet, result, runNo, inputSorted, prev>>

\* The body of the migration in hand writes a ledger row of its own.
SelfRecords(p) == Current(p).SQL = SelfRecording

\* INSERT ... ON CONFLICT (version) DO NOTHING inside the transaction: the
\* row is inserted unless a committed row holds the version.
RowAfterBody(p) ==
    IF SelfRecords(p) /\ ledger[tx[p].v] = 0 THEN TRUE ELSE tx[p].row

\* fn: tx.ExecContext(ctx, migration.SQL).
ExecMigrationSQL(p) ==
    /\ pc[p] = "fn_exec"
    /\ LET v == tx[p].v
       IN  \/ /\ ctx # Canceled
              /\ SelfRecords(p) => ~PrimaryKeyWait(p, v)
              /\ tx' = [tx EXCEPT ![p].body = TRUE, ![p].row = RowAfterBody(p)]
              /\ pc' = [pc EXCEPT ![p] = "fn_record"]
              /\ trace' = Log(p, << <<"ExecSQL", v>> >>)
              /\ UNCHANGED panicValue
              /\ UNCHANGED fnRet
           \/ /\ fnRet' = [fnRet EXCEPT ![p] =
                     Errorf("failed to execute migration SQL", DriverError("exec"))]
              /\ pc' = [pc EXCEPT ![p] = "rollback"]
              /\ trace' = Log(p, << <<"ExecSQLErr", v>> >>)
              /\ UNCHANGED panicValue
              /\ UNCHANGED tx
           \/ /\ pc' = [pc EXCEPT ![p] = "recover"]
              /\ trace' = Log(p, << <<"Panic", v>> >>)
              /\ panicValue' = [panicValue EXCEPT ![p].fn = "panic in body"]
              /\ UNCHANGED <<tx, fnRet>>
    /\ UNCHANGED <<accessVars, serviceVars, ctx, procs, shipped, tableExists, ledger, appliedAt, schema, migrations, idx, appliedMap,
                   snapshot, wtRet, result, runNo, inputSorted, prev>>

\* fn: INSERT INTO schema_migrations (version, description, applied_at).
RecordMigration(p) ==
    /\ pc[p] = "fn_record"
    /\ LET v == tx[p].v
       IN  \/ /\ ctx # Canceled
              /\ ~PrimaryKeyWait(p, v)
              /\ ~PrimaryKeyViolation(p, v)
              /\ tx' = [tx EXCEPT ![p].row = TRUE]
              /\ fnRet' = [fnRet EXCEPT ![p] = Nil]
              /\ pc' = [pc EXCEPT ![p] = "commit"]
              /\ trace' = Log(p, << <<"Insert", v>> >>)
              /\ UNCHANGED panicValue
           \/ /\ ~PrimaryKeyWait(p, v)
              /\ \E cause \in (IF PrimaryKeyViolation(p, v)
                               THEN { "unique_violation" }
                               ELSE { "exec" }) :
                    fnRet' = [fnRet EXCEPT ![p] =
                        Errorf("failed to record migration", DriverError(cause))]
              /\ pc' = [pc EXCEPT ![p] = "rollback"]
              /\ trace' = Log(p, << <<"InsertErr", v>> >>)
              /\ UNCHANGED panicValue
              /\ UNCHANGED tx
           \/ /\ pc' = [pc EXCEPT ![p] = "recover"]
              /\ trace' = Log(p, << <<"Panic", v>> >>)
              /\ panicValue' = [panicValue EXCEPT ![p].fn = "panic in insert"]
              /\ UNCHANGED <<tx, fnRet>>
    /\ UNCHANGED <<accessVars, serviceVars, ctx, procs, shipped, tableExists, ledger, appliedAt, schema, migrations, idx, appliedMap,
                   snapshot, wtRet, result, runNo, inputSorted, prev>>

\* A COMMIT that takes effect makes the writes of the transaction durable,
\* all of them at once.
LedgerAfterCommit(p) ==
    IF tx[p].row THEN [ledger EXCEPT ![tx[p].v] = @ + 1] ELSE ledger

SchemaAfterCommit(p) ==
    IF tx[p].body THEN [schema EXCEPT ![tx[p].v] = @ + 1] ELSE schema

\* The row the transaction inserted carries the time of its insert; a row
\* that was there keeps its own.
AppliedAtAfterCommit(p) ==
    IF tx[p].row /\ ledger[tx[p].v] = 0
    THEN [appliedAt EXCEPT ![tx[p].v] = <<p, runNo[p]>>]
    ELSE appliedAt

\* sql.ErrTxDone: what Rollback and Commit return for a Tx that another
\* caller has ended, here the goroutine that watches the context.
ErrTxDone == DriverError("sql: transaction has already been committed or rolled back")

\* The state of the Tx after Rollback or Commit: the call ends a Tx that is
\* open and leaves alone one that the watching goroutine has taken over.
EndedBy(p, st) == IF tx[p].st = "open" THEN st ELSE tx[p].st

\* Mutant of FnFailed: fn's error is wrapped in a new error.
FnFailedWrapped(err, rbErr) ==
    IF rbErr # Nil THEN RollbackErrorf(err, rbErr)
    ELSE Errorf("transaction failed", err)

\* The error WithTransaction returns when fn returned err and tx.Rollback()
\* returned rbErr.
FnFailed(err, rbErr) ==
    IF rbErr # Nil THEN RollbackErrorf(err, rbErr) ELSE err

\* Mutant of Rollback: when fn returned an error the transaction is
\* committed, not rolled back.
RollbackCommits(p) ==
    /\ pc[p] = "rollback"
    /\ ledger' = LedgerAfterCommit(p)
    /\ appliedAt' = AppliedAtAfterCommit(p)
    /\ schema' = SchemaAfterCommit(p)
    /\ tx' = [tx EXCEPT ![p].st = "committed"]
    /\ ApplyMigrationReturned(p, fnRet[p], << <<"Rollback", tx[p].v>> >>)
    /\ UNCHANGED <<accessVars, serviceVars, ctx, procs, shipped, panicValue, tableExists, migrations, appliedMap,
                   snapshot, fnRet, runNo, inputSorted, prev>>

\* WithTransaction, fn returned an error: tx.Rollback(), return.  A Rollback
\* that returns an error has still ended the transaction: database/sql marks
\* the Tx done and the driver drops the connection, so the server aborts it.
Rollback(p) ==
    /\ pc[p] = "rollback"
    /\ tx' = [tx EXCEPT ![p].st = EndedBy(p, "rolledback")]
    /\ \E rbErr \in (IF tx[p].st = "open" THEN { Nil, DriverError("rollback") }
                     ELSE { ErrTxDone }) :
          ApplyMigrationReturned(p, FnFailed(fnRet[p], rbErr),
              << <<IF rbErr = Nil THEN "Rollback" ELSE "RollbackErr", tx[p].v>> >>)
    /\ UNCHANGED <<ledger, appliedAt, schema>>
    /\ UNCHANGED <<accessVars, serviceVars, ctx, procs, shipped, panicValue, tableExists, migrations, appliedMap,
                   snapshot, fnRet, runNo, inputSorted, prev>>

\* Mutant of Recover: the deferred function rolls back and panics with a
\* value of its own instead of the recovered one.
RecoverPanicsAnew(p) ==
    /\ pc[p] = "recover"
    /\ tx' = [tx EXCEPT ![p].st = "rolledback"]
    /\ \E ev \in { "Rollback", "RollbackErr" } :
          trace' = Log(p, << <<ev, tx[p].v>> >>)
    /\ pc' = [pc EXCEPT ![p] = "panicked"]
    /\ panicValue' = [panicValue EXCEPT ![p].out = "transaction panicked"]
    /\ UNCHANGED <<accessVars, serviceVars, ctx, procs, shipped, tableExists, ledger, appliedAt, schema, migrations, idx, appliedMap,
                   snapshot, fnRet, wtRet, result, runNo, inputSorted, prev>>

\* Mutant of Recover: the deferred function panics again without rolling back.
RecoverWithoutRollback(p) ==
    /\ pc[p] = "recover"
    /\ pc' = [pc EXCEPT ![p] = "panicked"]
    /\ panicValue' = [panicValue EXCEPT ![p].out = panicValue[p].fn]
    /\ UNCHANGED <<accessVars, serviceVars, ctx, procs, shipped, tableExists, ledger, appliedAt, schema, migrations, idx, appliedMap,
                   snapshot, tx, fnRet, wtRet, result, trace, runNo, inputSorted, prev>>

\* WithTransaction, fn panicked: the deferred function takes the value with
\* recover(), rolls back, drops the error of the rollback and calls panic
\* with the value it recovered.
Recover(p) ==
    /\ pc[p] = "recover"
    /\ tx' = [tx EXCEPT ![p].st = EndedBy(p, "rolledback")]
    /\ \E ev \in { "Rollback", "RollbackErr" } :
          trace' = Log(p, << <<ev, tx[p].v>> >>)
    /\ pc' = [pc EXCEPT ![p] = "panicked"]
    /\ panicValue' = [panicValue EXCEPT ![p].out = panicValue[p].fn]
    /\ UNCHANGED <<accessVars, serviceVars, ctx, procs, shipped, tableExists, ledger, appliedAt, schema, migrations, idx, appliedMap,
                   snapshot, fnRet, wtRet, result, runNo, inputSorted, prev>>

\* WithTransaction, fn returned nil: tx.Commit().  Commit first looks at the
\* context of BeginTx and, when it is cancelled, returns its error (or
\* ErrTxDone) without committing and without rolling back.  Otherwise a
\* commit that returns an error has either not taken effect or taken effect
\* without the reply reaching the client; either way the Tx is done and
\* nothing stays open.
Commit(p) ==
    /\ pc[p] = "commit"
    /\ \/ /\ ctx = Canceled
          /\ ApplyMigrationReturned(p,
                 Errorf("failed to commit transaction",
                        IF tx[p].st = "open" THEN DriverError("context canceled")
                        ELSE ErrTxDone),
                 << <<"CommitErr", tx[p].v>> >>)
          /\ UNCHANGED <<ledger, appliedAt, schema, tx>>
       \/ /\ ctx # Canceled
          /\ ledger' = LedgerAfterCommit(p)
          /\ appliedAt' = AppliedAtAfterCommit(p)
          /\ schema' = SchemaAfterCommit(p)
          /\ tx' = [tx EXCEPT ![p].st = "committed"]
          /\ ApplyMigrationReturned(p, Nil, << <<"Commit", tx[p].v>> >>)
       \/ /\ ctx # Canceled
          /\ \E durable \in BOOLEAN :
                /\ ledger' = IF durable THEN LedgerAfterCommit(p) ELSE ledger
                /\ appliedAt' = IF durable THEN AppliedAtAfterCommit(p) ELSE appliedAt
                /\ schema' = IF durable THEN SchemaAfterCommit(p) ELSE schema
                /\ tx' = [tx EXCEPT ![p].st = IF durable THEN "committed" ELSE "rolledback"]
          /\ ApplyMigrationReturned(p,
                 Errorf("failed to commit transaction", DriverError("commit")),
                 << <<"CommitErr", tx[p].v>> >>)
    /\ UNCHANGED <<accessVars, serviceVars, ctx, procs, shipped, panicValue, tableExists, migrations, appliedMap, snapshot, fnRet,
                   runNo, inputSorted, prev>>

----------------------------------------------------------------------------
(* The end of a run. *)

Reset(p, outcome) ==
    /\ prev' = [prev EXCEPT ![p] = [declared |-> Declared(p), result |-> outcome]]
    /\ pc' = [pc EXCEPT ![p] = "idle"]
    /\ migrations' = [migrations EXCEPT ![p] = << >>]
    /\ idx' = [idx EXCEPT ![p] = 1]
    /\ appliedMap' = [appliedMap EXCEPT ![p] = {}]
    /\ snapshot' = [snapshot EXCEPT ![p] = {}]
    /\ tx' = [tx EXCEPT ![p] = NoTx]
    /\ fnRet' = [fnRet EXCEPT ![p] = Unset]
    /\ wtRet' = [wtRet EXCEPT ![p] = Unset]
    /\ result' = [result EXCEPT ![p] = Unset]
    /\ trace' = [trace EXCEPT ![p] = << >>]
    /\ inputSorted' = [inputSorted EXCEPT ![p] = TRUE]
    /\ panicValue' = [panicValue EXCEPT ![p] = NotPanicking]
    /\ UNCHANGED <<accessVars, serviceVars, ctx, procs, shipped, tableExists, ledger, appliedAt, schema, runNo>>

\* The caller has Apply's result; the Migrator is free for the next run.
Finish(p) ==
    /\ pc[p] = "returned"
    /\ Reset(p, result[p])

\* The panic ended the process; a new one may be started.
Restart(p) ==
    /\ pc[p] = "panicked"
    /\ Reset(p, Panicked)

Next ==
    \/ \E p \in procs : ApplyStart(p)
    \/ \E p \in procs : EnsureMigrationsTable(p)
    \/ \E p \in procs : GetAppliedMigrations(p)
    \/ \E p \in procs : LoopDone(p)
    \/ \E p \in procs : LoopSkip(p)
    \/ \E p \in procs : BeginTx(p)
    \/ \E p \in procs : ExecMigrationSQL(p)
    \/ \E p \in procs : RecordMigration(p)
    \/ \E p \in procs : Rollback(p)
    \/ \E p \in procs : Recover(p)
    \/ \E p \in procs : Commit(p)
    \/ \E p \in procs : Finish(p)
    \/ \E p \in procs : Restart(p)

Spec == Init /\ [][Next]_vars

SpecConc == InitConc /\ [][Next]_vars

\* Both settings: a lone Migrator run repeatedly, and two racing Migrators.
SpecAll == (Init \/ InitConc) /\ [][Next]_vars

----------------------------------------------------------------------------
(* Cancellation of the context handed to Apply.  WithTransaction passes it *)
(* to BeginTx, so database/sql watches it in a goroutine of the Tx: when   *)
(* the context is cancelled that goroutine rolls the transaction back,     *)
(* concurrently with the caller of WithTransaction.                        *)

\* The positions of a run at which its transaction is in flight: fn is
\* running, or fn has returned nil and Commit has not been called.
InFlight == { "fn_exec", "fn_record", "commit" }

\* The caller's context is cancelled while Apply runs.
Cancel(p) ==
    /\ ctx = Live
    /\ pc[p] \notin { "idle", "returned", "panicked" }
    /\ ctx' = Canceled
    /\ trace' = Log(p, << <<IF pc[p] \in InFlight THEN "CancelInTx" ELSE "Cancel",
                            IF pc[p] \in InFlight THEN tx[p].v ELSE NoVersion>> >>)
    /\ UNCHANGED <<accessVars, serviceVars, procs, shipped, panicValue, tableExists, ledger, appliedAt, schema, pc,
                   migrations, idx, appliedMap, snapshot, tx, fnRet, wtRet, result, runNo,
                   inputSorted, prev>>

\* Tx.awaitDone: the context is done and the Tx is not; the goroutine marks
\* the Tx done, so that Rollback and Commit return ErrTxDone from now on.
AwaitDone(p) ==
    /\ ctx = Canceled
    /\ tx[p].st = "open"
    /\ tx' = [tx EXCEPT ![p].st = "rollingback"]
    /\ UNCHANGED <<accessVars, serviceVars, ctx, procs, shipped, panicValue, tableExists, ledger, appliedAt, schema, pc,
                   migrations, idx, appliedMap, snapshot, fnRet, wtRet, result, trace, runNo,
                   inputSorted, prev>>

\* Tx.awaitDone, then: the goroutine rolls the transaction back on its
\* connection.
AwaitDoneRollback(p) ==
    /\ tx[p].st = "rollingback"
    /\ tx' = [tx EXCEPT ![p].st = "rolledback"]
    /\ UNCHANGED <<accessVars, serviceVars, ctx, procs, shipped, panicValue, tableExists, ledger, appliedAt, schema, pc,
                   migrations, idx, appliedMap, snapshot, fnRet, wtRet, result, trace, runNo,
                   inputSorted, prev>>

\* An Apply run over hand-written migrations and shipped SQL files.
SpecShipped == InitShipped /\ [][Next]_vars

NextCancel ==
    \/ Next
    \/ \E p \in procs : Cancel(p)
    \/ \E p \in procs : AwaitDone(p)
    \/ \E p \in procs : AwaitDoneRollback(p)

\* An Apply run whose context can be cancelled at any moment.
SpecCancel == InitCancel /\ [][NextCancel]_vars

----------------------------------------------------------------------------
(* The access-control provisioning layer: RLSManager, CreateServiceRoles   *)
(* and DropAllTables, called by an operator one call at a time.  Every     *)
(* statement is executed on the pool outside a transaction, so it takes    *)
(* effect when it succeeds; any statement can fail.                        *)

migrateVars == <<procs, tableExists, ledger, appliedAt, schema, pc, migrations, idx, appliedMap,
                 snapshot, tx, fnRet, wtRet, result, trace, runNo, inputSorted, prev,
                 panicValue, ctx, shipped>>

\* An operator working alone makes several calls; next to a Migrator it
\* makes one.
OpLimit == IF procs = {} THEN MaxOps ELSE 1

\* The operator may start a call: calls and Apply runs follow one another.
OperatorFree ==
    /\ provisioning
    /\ call.pc = "idle"
    /\ opNo < OpLimit
    /\ \A p \in procs : pc[p] = "idle"

\* fmt.Errorf(msg + " %s: %w", args, err)
ErrorfArgs(msg, args, err) == << <<msg, args, Nil>> >> \o err

\* The call returns err after the statement stmt.
Returned(err, stmt) ==
    [call EXCEPT !.pc = "returned", !.ret = err, !.stmts = Append(@, stmt)]

PermLists == SeqsUpTo(InputPrivileges, MaxPerms)

\* The actions of cmd/migrate: migrate, roles, drop.
OrchestratorActions == { "AutoMigrate", "CreateServiceRoles", "DropAllTables" }

\* What an action of cmd/migrate can change in the database.
Snapshot ==
    [tables |-> tables, roles |-> roles, grants |-> grants, objects |-> objects]

\* main: log.Fatalf ends the process with status 1 when the action returned
\* an error; otherwise main returns and the status is 0.
ExitStatus(err) == IF err = Nil THEN 0 ELSE 1

\* What the caller of an action gets: the error printed and the exit status.
Report(err) == [result |-> err, status |-> ExitStatus(err)]

\* What the action did: it failed, it found nothing to do, or it changed
\* the database.
Outcome(c) ==
    IF c.ret # Nil THEN "fatal error"
    ELSE IF Snapshot = c.before THEN "nothing to do"
    ELSE "applied changes"

\* What is remembered of a call when the next one is made.
Summary(c) ==
    IF c.op \in OrchestratorActions
    THEN [op |-> c.op, report |-> Report(c.ret), outcome |-> Outcome(c)]
    ELSE [NoLastCall EXCEPT !.op = "other"]

\* CreateServiceRole, the existence check: QueryRowContext(checkQuery, roleName).
CreateServiceRole ==
    /\ OperatorFree
    /\ \E roleName \in RoleNames, password \in Passwords :
          LET c == [NoCall EXCEPT !.op = "CreateServiceRole",
                                  !.args = <<roleName, password>>,
                                  !.before = roles[Fold(roleName)]]
          IN  \/ call' = [c EXCEPT !.pc = "returned",
                              !.ret = Errorf("failed to check if role exists",
                                             DriverError("query")),
                              !.stmts = << <<"SELECT EXISTS", roleName, "error">> >>]
              \/ call' = [c EXCEPT !.pc = IF RoleExists(roleName) THEN "returned"
                                          ELSE "create_role",
                              !.ret = IF RoleExists(roleName) THEN Nil ELSE Unset,
                              !.stmts = << <<"SELECT EXISTS", roleName, "ok">> >>]
    /\ opNo' = opNo + 1
    /\ UNCHANGED <<migrateVars, serviceVars, objects, lastCall, provisioning, tables, roles, policies, grants, rlsEnabled>>

\* CreateServiceRole, the role was not found: CREATE ROLE %s WITH LOGIN PASSWORD.
CreateRole ==
    /\ call.op = "CreateServiceRole" /\ call.pc = "create_role"
    /\ LET roleName == call.args[1]
           password == call.args[2]
       IN  \/ /\ ~RoleDefined(roleName)
              /\ roles' = [roles EXCEPT ![Fold(roleName)] = password]
              /\ call' = Returned(Nil, <<"CREATE ROLE", roleName, "ok">>)
           \/ /\ \E cause \in (IF RoleDefined(roleName) THEN { "duplicate_object" }
                               ELSE { "exec" }) :
                    call' = Returned(ErrorfArgs("failed to create role", roleName,
                                                DriverError(cause)),
                                     <<"CREATE ROLE", roleName, "error">>)
              /\ UNCHANGED roles
    /\ UNCHANGED <<migrateVars, serviceVars, objects, lastCall, provisioning, tables, policies, grants, rlsEnabled, opNo>>

\* Why PostgreSQL refuses CREATE POLICY cfg.Name ON cfg.Table ... TO cfg.Role.
PolicyRefused(cfg) ==
    IF cfg.Table \notin tables THEN "undefined_table"
    ELSE IF policies[PolicyKey(cfg)] # NoPolicy THEN "duplicate_object"
    ELSE IF ~RoleDefined(cfg.Role) THEN "undefined_object"
    ELSE "none"

\* Mutant of CreatePolicy: the statement is CREATE OR REPLACE, an upsert.
CreatePolicyReplaces ==
    /\ OperatorFree
    /\ \E cfg \in PolicyConfig :
          LET key == <<cfg.Name, cfg.Table>>
              c == [NoCall EXCEPT !.op = "CreatePolicy", !.args = cfg,
                                  !.before = policies[key]]
          IN  \/ /\ PolicyRefused(cfg) \in { "none", "duplicate_object" }
                 /\ policies' = [policies EXCEPT ![key] = PolicyOf(cfg)]
                 /\ call' = [c EXCEPT !.pc = "returned", !.ret = Nil,
                                 !.stmts = << <<"CREATE POLICY", key, "ok">> >>]
              \/ /\ call' = [c EXCEPT !.pc = "returned",
                                 !.ret = ErrorfArgs("failed to create policy", cfg.Name,
                                                    DriverError("exec")),
                                 !.stmts = << <<"CREATE POLICY", key, "error">> >>]
                 /\ UNCHANGED policies
    /\ opNo' = opNo + 1
    /\ UNCHANGED <<migrateVars, serviceVars, objects, lastCall, provisioning, tables, roles, grants, rlsEnabled>>

\* CreatePolicy: one CREATE POLICY statement.
CreatePolicy ==
    /\ OperatorFree
    /\ \E cfg \in PolicyConfig :
          LET key == <<cfg.Name, cfg.Table>>
              c == [NoCall EXCEPT !.op = "CreatePolicy", !.args = cfg,
                                  !.before = policies[key]]
          IN  \/ /\ PolicyRefused(cfg) = "none"
                 /\ policies' = [policies EXCEPT ![key] = PolicyOf(cfg)]
                 /\ call' = [c EXCEPT !.pc = "returned", !.ret = Nil,
                                 !.stmts = << <<"CREATE POLICY", key, "ok">> >>]
              \/ /\ \E cause \in (IF PolicyRefused(cfg) = "none" THEN { "exec" }
                                  ELSE { PolicyRefused(cfg) }) :
                       call' = [c EXCEPT !.pc = "returned",
                                   !.ret = ErrorfArgs("failed to create policy", cfg.Name,
                                                      DriverError(cause)),
                                   !.stmts = << <<"CREATE POLICY", key, "error">> >>]
                 /\ UNCHANGED policies
    /\ opNo' = opNo + 1
    /\ UNCHANGED <<migrateVars, serviceVars, objects, lastCall, provisioning, tables, roles, grants, rlsEnabled>>

\* DropPolicy: DROP POLICY IF EXISTS %s ON %s.
DropPolicy ==
    /\ OperatorFree
    /\ \E policyName \in PolicyNames, tableName \in InputTables :
          LET key == <<policyName, tableName>>
              c == [NoCall EXCEPT !.op = "DropPolicy", !.args = key,
                                  !.before = policies[key]]
          IN  \/ /\ tableName \in tables
                 /\ policies' = [policies EXCEPT ![key] = NoPolicy]
                 /\ call' = [c EXCEPT !.pc = "returned", !.ret = Nil,
                                 !.stmts = << <<"DROP POLICY", key, "ok">> >>]
              \/ /\ call' = [c EXCEPT !.pc = "returned",
                                 !.ret = ErrorfArgs("failed to drop policy", policyName,
                                                    DriverError("exec")),
                                 !.stmts = << <<"DROP POLICY", key, "error">> >>]
                 /\ UNCHANGED policies
    /\ opNo' = opNo + 1
    /\ UNCHANGED <<migrateVars, serviceVars, objects, lastCall, provisioning, tables, roles, grants, rlsEnabled>>

\* EnableRLS: ALTER TABLE %s ENABLE ROW LEVEL SECURITY.
EnableRLS ==
    /\ OperatorFree
    /\ \E tableName \in InputTables :
          LET c == [NoCall EXCEPT !.op = "EnableRLS", !.args = tableName,
                                  !.before = tableName \in rlsEnabled]
          IN  \/ /\ tableName \in tables
                 /\ rlsEnabled' = rlsEnabled \cup { tableName }
                 /\ call' = [c EXCEPT !.pc = "returned", !.ret = Nil,
                                 !.stmts = << <<"ENABLE RLS", tableName, "ok">> >>]
              \/ /\ call' = [c EXCEPT !.pc = "returned",
                                 !.ret = ErrorfArgs("failed to enable RLS on", tableName,
                                                    DriverError("exec")),
                                 !.stmts = << <<"ENABLE RLS", tableName, "error">> >>]
                 /\ UNCHANGED rlsEnabled
    /\ opNo' = opNo + 1
    /\ UNCHANGED <<migrateVars, serviceVars, objects, lastCall, provisioning, tables, roles, policies, grants>>

\* DisableRLS: ALTER TABLE %s DISABLE ROW LEVEL SECURITY.
DisableRLS ==
    /\ OperatorFree
    /\ \E tableName \in InputTables :
          LET c == [NoCall EXCEPT !.op = "DisableRLS", !.args = tableName,
                                  !.before = tableName \in rlsEnabled]
          IN  \/ /\ tableName \in tables
                 /\ rlsEnabled' = rlsEnabled \ { tableName }
                 /\ call' = [c EXCEPT !.pc = "returned", !.ret = Nil,
                                 !.stmts = << <<"DISABLE RLS", tableName, "ok">> >>]
              \/ /\ call' = [c EXCEPT !.pc = "returned",
                                 !.ret = ErrorfArgs("failed to disable RLS on", tableName,
                                                    DriverError("exec")),
                                 !.stmts = << <<"DISABLE RLS", tableName, "error">> >>]
                 /\ UNCHANGED rlsEnabled
    /\ opNo' = opNo + 1
    /\ UNCHANGED <<migrateVars, serviceVars, objects, lastCall, provisioning, tables, roles, policies, grants>>

\* Mutant of SetupServiceRLS: the error of EnableRLS is dropped and the
\* policy is created all the same.
SetupServiceRLSIgnoresError ==
    /\ OperatorFree
    /\ \E serviceName \in RoleNames, tableName \in InputTables, fullAccess \in BOOLEAN :
          LET c == [NoCall EXCEPT !.op = "SetupServiceRLS",
                                  !.args = <<serviceName, tableName, fullAccess>>,
                                  !.before = [policies |-> policies,
                                              rlsEnabled |-> rlsEnabled]]
          IN  \/ /\ tableName \in tables
                 /\ rlsEnabled' = rlsEnabled \cup { tableName }
                 /\ call' = [c EXCEPT !.pc = "policy",
                                 !.stmts = << <<"ENABLE RLS", tableName, "ok">> >>]
              \/ /\ call' = [c EXCEPT !.pc = "policy",
                                 !.stmts = << <<"ENABLE RLS", tableName, "error">> >>]
                 /\ UNCHANGED rlsEnabled
    /\ opNo' = opNo + 1
    /\ UNCHANGED <<migrateVars, serviceVars, objects, lastCall, provisioning, tables, roles, policies, grants>>

\* SetupServiceRLS, the first step: mgr.EnableRLS(ctx, tableName), whose
\* error is returned as it is.
SetupServiceRLS ==
    /\ OperatorFree
    /\ \E serviceName \in RoleNames, tableName \in InputTables, fullAccess \in BOOLEAN :
          LET c == [NoCall EXCEPT !.op = "SetupServiceRLS",
                                  !.args = <<serviceName, tableName, fullAccess>>,
                                  !.before = [policies |-> policies,
                                              rlsEnabled |-> rlsEnabled]]
          IN  \/ /\ tableName \in tables
                 /\ rlsEnabled' = rlsEnabled \cup { tableName }
                 /\ call' = [c EXCEPT !.pc = "policy",
                                 !.stmts = << <<"ENABLE RLS", tableName, "ok">> >>]
              \/ /\ call' = [c EXCEPT !.pc = "returned",
                                 !.ret = ErrorfArgs("failed to enable RLS on", tableName,
                                                    DriverError("exec")),
                                 !.stmts = << <<"ENABLE RLS", tableName, "error">> >>]
                 /\ UNCHANGED rlsEnabled
    /\ opNo' = opNo + 1
    /\ UNCHANGED <<migrateVars, serviceVars, objects, lastCall, provisioning, tables, roles, policies, grants>>

\* Mutant of SetupServicePolicy: the access level is applied as the desired
\* state, the policies the role has on the table are dropped first.
SetupServicePolicyReplaces ==
    /\ call.op = "SetupServiceRLS" /\ call.pc = "policy"
    /\ LET cfg == SetupPolicy(call.args[1], call.args[2], call.args[3])
           key == PolicyKey(cfg)
       IN  \/ /\ PolicyRefused(cfg) \in { "none", "duplicate_object" }
              /\ policies' =
                    [k \in PolicyKeys |->
                        IF k = key THEN PolicyOf(cfg)
                        ELSE IF k[2] = cfg.Table /\ policies[k] # NoPolicy
                                /\ policies[k].Role = Fold(cfg.Role)
                             THEN NoPolicy
                             ELSE policies[k]]
              /\ call' = Returned(Nil, <<"CREATE POLICY", key, "ok">>)
           \/ /\ call' = Returned(ErrorfArgs("failed to create policy", cfg.Name,
                                              DriverError("exec")),
                                   <<"CREATE POLICY", key, "error">>)
              /\ UNCHANGED policies
    /\ UNCHANGED <<migrateVars, serviceVars, objects, lastCall, provisioning, tables, roles, grants,
                   rlsEnabled, opNo>>

\* Mutant of SetupServicePolicy: when CreatePolicy fails, row level security
\* is disabled again on a table on which the call enabled it.
SetupServicePolicyUndoes ==
    /\ call.op = "SetupServiceRLS" /\ call.pc = "policy"
    /\ LET cfg == SetupPolicy(call.args[1], call.args[2], call.args[3])
           key == PolicyKey(cfg)
       IN  \/ /\ PolicyRefused(cfg) = "none"
              /\ policies' = [policies EXCEPT ![key] = PolicyOf(cfg)]
              /\ call' = Returned(Nil, <<"CREATE POLICY", key, "ok">>)
              /\ UNCHANGED rlsEnabled
           \/ /\ \E cause \in (IF PolicyRefused(cfg) = "none" THEN { "exec" }
                               ELSE { PolicyRefused(cfg) }) :
                    call' = Returned(ErrorfArgs("failed to create policy", cfg.Name,
                                                DriverError(cause)),
                                     <<"CREATE POLICY", key, "error">>)
              /\ rlsEnabled' = rlsEnabled \ { cfg.Table }
              /\ UNCHANGED policies
    /\ UNCHANGED <<migrateVars, serviceVars, objects, lastCall, provisioning, tables, roles, grants,
                   opNo>>

\* SetupServiceRLS, the second step: mgr.CreatePolicy(ctx, policy) with the
\* policy of the access level, and its result returned.
SetupServicePolicy ==
    /\ call.op = "SetupServiceRLS" /\ call.pc = "policy"
    /\ LET cfg == SetupPolicy(call.args[1], call.args[2], call.args[3])
           key == PolicyKey(cfg)
       IN  \/ /\ PolicyRefused(cfg) = "none"
              /\ policies' = [policies EXCEPT ![key] = PolicyOf(cfg)]
              /\ call' = Returned(Nil, <<"CREATE POLICY", key, "ok">>)
           \/ /\ \E cause \in (IF PolicyRefused(cfg) = "none" THEN { "exec" }
                               ELSE { PolicyRefused(cfg) }) :
                    call' = Returned(ErrorfArgs("failed to create policy", cfg.Name,
                                                DriverError(cause)),
                                     <<"CREATE POLICY", key, "error">>)
              /\ UNCHANGED policies
    /\ UNCHANGED <<migrateVars, serviceVars, objects, lastCall, provisioning, tables, roles, grants,
                   rlsEnabled, opNo>>

\* Why PostgreSQL refuses GRANT/REVOKE ... ON tableName TO/FROM roleName.
PrivilegeRefused(tableName, roleName) ==
    IF tableName \notin tables THEN "undefined_table"
    ELSE IF ~RoleDefined(roleName) THEN "undefined_object"
    ELSE "none"

\* The privileges table once GRANT perm ON tableName TO roleName, or REVOKE
\* perm ON tableName FROM roleName, has succeeded.
GrantsAfter(verb, tableName, roleName, perm) ==
    IF verb = "GRANT"
    THEN grants \cup { <<tableName, Fold(roleName), perm>> }
    ELSE grants \ { <<tableName, Fold(roleName), perm>> }

\* A caller invokes GrantTablePermissions(ctx, tableName, roleName, permissions).
GrantTablePermissions ==
    /\ OperatorFree
    /\ \E tableName \in InputTables, roleName \in RoleNames, permissions \in PermLists :
          call' = [NoCall EXCEPT !.op = "GrantTablePermissions", !.pc = "loop",
                                 !.args = <<tableName, roleName, permissions>>,
                                 !.i = 1,
                                 !.before = GrantedOn(tableName, Fold(roleName))]
    /\ opNo' = opNo + 1
    /\ UNCHANGED <<migrateVars, serviceVars, objects, lastCall, provisioning, tables, roles, policies, grants, rlsEnabled>>

\* One turn of the range loop of a privilege list: the list is exhausted and
\* the call returns nil, or the statement verb is executed for the next
\* privilege; on its error the call returns at once with msg and the
\* privilege, table and role.
PermissionLoop(op, verb, msg) ==
    /\ call.op = op /\ call.pc = "loop"
    /\ LET tableName == call.args[1]
           roleName == call.args[2]
           permissions == call.args[3]
       IN  IF call.i > Len(permissions)
           THEN /\ call' = [call EXCEPT !.pc = "returned", !.ret = Nil]
                /\ UNCHANGED grants
           ELSE LET perm == permissions[call.i]
                    operands == <<perm, tableName, roleName>>
                    refused == PrivilegeRefused(tableName, roleName)
                IN  \/ /\ refused = "none"
                       /\ grants' = GrantsAfter(verb, tableName, roleName, perm)
                       /\ call' = [call EXCEPT !.i = @ + 1,
                                       !.stmts = Append(@, <<verb, operands, "ok">>)]
                    \/ /\ \E cause \in (IF refused = "none" THEN { "exec" }
                                        ELSE { refused }) :
                             call' = Returned(ErrorfArgs(msg, operands, DriverError(cause)),
                                              <<verb, operands, "error">>)
                       /\ UNCHANGED grants
    /\ UNCHANGED <<migrateVars, serviceVars, objects, lastCall, provisioning, tables, roles, policies, rlsEnabled, opNo>>

\* Mutant of GrantStatement: a failing privilege is skipped and the loop
\* goes on; the error is returned at the end.
GrantStatementContinues ==
    /\ call.op = "GrantTablePermissions" /\ call.pc = "loop"
    /\ LET tableName == call.args[1]
           roleName == call.args[2]
           permissions == call.args[3]
       IN  IF call.i > Len(permissions)
           THEN /\ call' = [call EXCEPT !.pc = "returned",
                                !.ret = IF call.ret = Unset THEN Nil ELSE call.ret]
                /\ UNCHANGED grants
           ELSE LET perm == permissions[call.i]
                    operands == <<perm, tableName, roleName>>
                    refused == PrivilegeRefused(tableName, roleName)
                IN  \/ /\ refused = "none"
                       /\ grants' = grants \cup { <<tableName, Fold(roleName), perm>> }
                       /\ call' = [call EXCEPT !.i = @ + 1,
                                       !.stmts = Append(@, <<"GRANT", operands, "ok">>)]
                    \/ /\ call' = [call EXCEPT !.i = @ + 1,
                                       !.ret = ErrorfArgs("failed to grant", operands,
                                                          DriverError("exec")),
                                       !.stmts = Append(@, <<"GRANT", operands, "error">>)]
                       /\ UNCHANGED grants
    /\ UNCHANGED <<migrateVars, serviceVars, objects, lastCall, provisioning, tables, roles, policies, rlsEnabled, opNo>>

\* GrantTablePermissions, the loop: GRANT %s ON %s TO %s.
GrantStatement ==
    PermissionLoop("GrantTablePermissions", "GRANT", "failed to grant")

\* A caller invokes RevokeTablePermissions(ctx, tableName, roleName, permissions).
RevokeTablePermissions ==
    /\ OperatorFree
    /\ \E tableName \in InputTables, roleName \in RoleNames, permissions \in PermLists :
          call' = [NoCall EXCEPT !.op = "RevokeTablePermissions", !.pc = "loop",
                                 !.args = <<tableName, roleName, permissions>>,
                                 !.i = 1,
                                 !.before = GrantedOn(tableName, Fold(roleName))]
    /\ opNo' = opNo + 1
    /\ UNCHANGED <<migrateVars, serviceVars, objects, lastCall, provisioning, tables, roles, policies, grants, rlsEnabled>>

\* RevokeTablePermissions, the loop: REVOKE %s ON %s FROM %s.
RevokeStatement ==
    PermissionLoop("RevokeTablePermissions", "REVOKE", "failed to revoke")

\* A caller invokes CreateServiceRoles(db).
CreateServiceRoles ==
    /\ OperatorFree
    /\ call' = [NoCall EXCEPT !.op = "CreateServiceRoles", !.pc = "roles", !.i = 1,
                              !.before = Snapshot]
    /\ opNo' = opNo + 1
    /\ UNCHANGED <<migrateVars, serviceVars, objects, lastCall, provisioning, tables, roles, policies, grants, rlsEnabled>>

\* Mutant of CreateServiceRolesRole: the error of a role is logged and the
\* loop goes on.
CreateServiceRolesRoleContinues ==
    /\ call.op = "CreateServiceRoles" /\ call.pc = "roles"
    /\ LET role == ServiceRoles[call.i]
           create == ~RoleExists(role.name)
           next == [call EXCEPT
                     !.pc = IF call.i = Len(ServiceRoles) THEN "grants" ELSE "roles",
                     !.i = IF call.i = Len(ServiceRoles) THEN 1 ELSE call.i + 1]
       IN  \/ /\ create => ~RoleDefined(role.name)
              /\ roles' = IF create THEN [roles EXCEPT ![Fold(role.name)] = role.password]
                          ELSE roles
              /\ call' = [next EXCEPT
                     !.stmts = Append(@, <<IF create THEN "DO CREATE ROLE" ELSE "DO NOTHING",
                                           role.name, "ok">>)]
           \/ /\ call' = [next EXCEPT !.stmts = Append(@, <<"DO", role.name, "error">>)]
              /\ UNCHANGED roles
    /\ UNCHANGED <<migrateVars, serviceVars, objects, lastCall, provisioning, tables, policies, grants, rlsEnabled, opNo>>

\* CreateServiceRoles, one turn of the loop over roles: a DO block that
\* creates the role unless pg_roles has a row with rolname = '<name>'.
CreateServiceRolesRole ==
    /\ call.op = "CreateServiceRoles" /\ call.pc = "roles"
    /\ LET role == ServiceRoles[call.i]
           create == ~RoleExists(role.name)
       IN  \/ /\ create => ~RoleDefined(role.name)
              /\ roles' = IF create THEN [roles EXCEPT ![Fold(role.name)] = role.password]
                          ELSE roles
              /\ call' = [call EXCEPT
                     !.pc = IF call.i = Len(ServiceRoles) THEN "grants" ELSE "roles",
                     !.i = IF call.i = Len(ServiceRoles) THEN 1 ELSE call.i + 1,
                     !.stmts = Append(@, <<IF create THEN "DO CREATE ROLE" ELSE "DO NOTHING",
                                           role.name, "ok">>)]
           \/ /\ call' = Returned(ErrorfArgs("failed to create role", role.name,
                                             DriverError("exec")),
                                  <<"DO", role.name, "error">>)
              /\ UNCHANGED roles
    /\ UNCHANGED <<migrateVars, serviceVars, objects, lastCall, provisioning, tables, policies, grants, rlsEnabled, opNo>>

CRUD == { "SELECT", "INSERT", "UPDATE", "DELETE" }

\* The table privileges of the three Exec calls of grantPermissions (the
\* privileges on sequences are left out).
ServiceGrants ==
    << [role |-> "user_service",
        privileges |-> { "users" } \X CRUD],
       [role |-> "file_service",
        privileges |-> ({ "files", "folders" } \X CRUD) \cup { <<"users", "SELECT">> }],
       [role |-> "analytics_reader",
        privileges |-> { "users", "files", "folders" } \X { "SELECT" }] >>

\* grantPermissions, one Exec: the GRANT statements of one role, sent as one
\* query string and so executed in one implicit transaction.
grantPermissions ==
    /\ call.op = "CreateServiceRoles" /\ call.pc = "grants"
    /\ LET g == ServiceGrants[call.i]
           possible == /\ RoleDefined(g.role)
                       /\ \A tp \in g.privileges : tp[1] \in tables
       IN  \/ /\ possible
              /\ grants' = grants \cup { <<tp[1], g.role, tp[2]>> : tp \in g.privileges }
              /\ call' = [call EXCEPT
                     !.pc = IF call.i = Len(ServiceGrants) THEN "returned" ELSE "grants",
                     !.ret = IF call.i = Len(ServiceGrants) THEN Nil ELSE Unset,
                     !.i = call.i + 1,
                     !.stmts = Append(@, <<"GRANT", g.role, "ok">>)]
           \/ /\ \E cause \in (IF possible THEN { "exec" } ELSE { "undefined_table" }) :
                    call' = Returned(
                        Errorf("failed to grant permissions",
                               ErrorfArgs("failed to grant permissions to", g.role,
                                          DriverError(cause))),
                        <<"GRANT", g.role, "error">>)
              /\ UNCHANGED grants
    /\ UNCHANGED <<migrateVars, serviceVars, objects, lastCall, provisioning, tables, roles, policies, rlsEnabled, opNo>>

\* fmt.Sprintf("update_%s_updated_at", table)
TriggerName(table) == "update_" \o table \o "_updated_at"

\* The schema has no table for an extension or a function.
NoTable == ""

\* The statements of AutoMigrate and, from the fourth on, of
\* addCustomConstraints, in the order of the code: the object each one is
\* about as <<kind, name, table>>, and the message its error is wrapped in.
MigrateSteps ==
    << [verb |-> "CREATE EXTENSION IF NOT EXISTS",
        object |-> <<"extension", "uuid-ossp", NoTable>>,
        msg |-> "failed to create uuid-ossp extension"],
       [verb |-> "CREATE EXTENSION IF NOT EXISTS",
        object |-> <<"extension", "pgcrypto", NoTable>>,
        msg |-> "failed to create pgcrypto extension"],
       [verb |-> "db.AutoMigrate",
        object |-> <<"tables", "User, Folder, File", NoTable>>,
        msg |-> "failed to auto-migrate models"],
       [verb |-> "DO ADD CONSTRAINT",
        object |-> <<"constraint", "users_email_format_check", "users">>,
        msg |-> "failed to add email format constraint"],
       [verb |-> "DO ADD CONSTRAINT",
        object |-> <<"constraint", "folders_no_self_parent_check", "folders">>,
        msg |-> "failed to add no self-parent constraint"],
       [verb |-> "CREATE OR REPLACE FUNCTION",
        object |-> <<"function", "update_updated_at_column", NoTable>>,
        msg |-> "failed to create update_updated_at_column function"],
       [verb |-> "DROP TRIGGER IF EXISTS, CREATE TRIGGER",
        object |-> <<"trigger", TriggerName("users"), "users">>,
        msg |-> "failed to create trigger for"],
       [verb |-> "DROP TRIGGER IF EXISTS, CREATE TRIGGER",
        object |-> <<"trigger", TriggerName("files"), "files">>,
        msg |-> "failed to create trigger for"],
       [verb |-> "DROP TRIGGER IF EXISTS, CREATE TRIGGER",
        object |-> <<"trigger", TriggerName("folders"), "folders">>,
        msg |-> "failed to create trigger for"] >>

\* The first statement of addCustomConstraints.
FirstConstraintStep == 4

\* Mutant of ConstraintExists: the DO block adds the constraint unguarded.
ConstraintExistsNever(conname) == FALSE

\* IF NOT EXISTS (SELECT 1 FROM pg_constraint WHERE conname = '...')
ConstraintExists(conname) ==
    \E o \in objects : o[1] = "constraint" /\ o[2] = conname

\* The statement of a step leaves the database alone: the DO block found
\* the constraint.
StepSkips(step) ==
    step.verb = "DO ADD CONSTRAINT" /\ ConstraintExists(step.object[2])

\* Why PostgreSQL refuses the statement of a step.
StepRefused(step) ==
    IF step.object[3] # NoTable /\ step.object[3] \notin tables THEN "undefined_table"
    ELSE IF step.object[1] = "constraint" /\ step.object \in objects
         THEN "duplicate_object"
    ELSE IF step.object[1] = "trigger"
            /\ <<"function", "update_updated_at_column", NoTable>> \notin objects
         THEN "undefined_function"
    ELSE "none"

\* The error AutoMigrate returns for a failing step: the errors of
\* addCustomConstraints are wrapped once more.
MigrateError(i, cause) ==
    LET step == MigrateSteps[i]
        err == IF step.object[1] = "trigger"
               THEN ErrorfArgs(step.msg, step.object[3], DriverError(cause))
               ELSE Errorf(step.msg, DriverError(cause))
    IN  IF i >= FirstConstraintStep
        THEN Errorf("failed to add custom constraints", err)
        ELSE err

\* A caller invokes AutoMigrate(db).
AutoMigrate ==
    /\ OperatorFree
    /\ call' = [NoCall EXCEPT !.op = "AutoMigrate", !.pc = "migrate", !.i = 1,
                              !.before = Snapshot]
    /\ opNo' = opNo + 1
    /\ UNCHANGED <<migrateVars, serviceVars, objects, lastCall, provisioning, tables, roles, policies, grants, rlsEnabled>>

\* AutoMigrate, one statement: the extensions, gorm's AutoMigrate of the
\* models (it creates the tables that are missing), then the statements of
\* addCustomConstraints.  The first error is returned.
AutoMigrateStep ==
    /\ call.op = "AutoMigrate" /\ call.pc = "migrate"
    /\ LET step == MigrateSteps[call.i]
           last == call.i = Len(MigrateSteps)
           refused == IF StepSkips(step) THEN "none" ELSE StepRefused(step)
       IN  \/ /\ refused = "none"
              /\ tables' = IF step.verb = "db.AutoMigrate" THEN ManagedTables ELSE tables
              /\ objects' = IF step.verb = "db.AutoMigrate" \/ StepSkips(step)
                            THEN objects
                            ELSE objects \cup { step.object }
              /\ call' = [call EXCEPT
                     !.i = call.i + 1,
                     !.pc = IF last THEN "returned" ELSE "migrate",
                     !.ret = IF last THEN Nil ELSE Unset,
                     !.stmts = Append(@, <<step.verb, step.object[2], "ok">>)]
           \/ /\ \E cause \in (IF refused = "none" THEN { "exec" } ELSE { refused }) :
                    call' = Returned(MigrateError(call.i, cause),
                                     <<step.verb, step.object[2], "error">>)
              /\ UNCHANGED <<tables, objects>>
    /\ UNCHANGED <<migrateVars, serviceVars, lastCall, provisioning, roles, policies, grants, rlsEnabled, opNo>>

\* The models handed to DropTable, in the order of the call: File, Folder, User.
DropModels == << "files", "folders", "users" >>

\* The foreign keys of the models, <<table, referenced table>>: File.User,
\* File.Folder, Folder.User, Folder.Parent.
ForeignKeys ==
    { <<"files", "users">>, <<"files", "folders">>,
      <<"folders", "users">>, <<"folders", "folders">> }

Reverse(s) == [i \in 1..Len(s) |-> s[Len(s) + 1 - i]]

\* db.Migrator().DropTable(values...) walks the list ReorderModels(values,
\* false) from its end.  The list is the models as they were handed over or,
\* depending on the version of the library, the models with each one after
\* the models it references.
ReorderModels(values) ==
    { values }
    \cup { order \in [1..Len(values) -> Range(values)] :
               /\ Range(order) = Range(values)
               /\ \A i, j \in 1..Len(values) :
                     (i < j /\ order[i] # order[j]) => <<order[i], order[j]>> \notin ForeignKeys }

\* A caller invokes DropAllTables(db): args holds the models still to drop,
\* in the order in which DropTable drops them.
DropAllTables ==
    /\ OperatorFree
    /\ \E order \in ReorderModels(DropModels) :
          call' = [NoCall EXCEPT !.op = "DropAllTables", !.pc = "drop",
                                 !.args = Reverse(order), !.before = Snapshot]
    /\ opNo' = opNo + 1
    /\ UNCHANGED <<migrateVars, serviceVars, objects, lastCall, provisioning, tables, roles, policies, grants, rlsEnabled>>

\* db.Migrator().DropTable, one table: DROP TABLE IF EXISTS ... CASCADE for
\* the next model; the policies, the privileges, the constraints and the
\* triggers of a table go with it.  The first error is returned.
DropTable ==
    /\ call.op = "DropAllTables" /\ call.pc = "drop"
    /\ LET t == Head(call.args)
           last == Len(call.args) = 1
       IN  \/ /\ tables' = tables \ { t }
              /\ policies' = [k \in PolicyKeys |->
                                 IF k[2] = t THEN NoPolicy ELSE policies[k]]
              /\ grants' = { g \in grants : g[1] # t }
              /\ rlsEnabled' = rlsEnabled \ { t }
              /\ objects' = { o \in objects : o[3] # t }
              /\ call' = [call EXCEPT
                     !.args = Tail(call.args),
                     !.pc = IF last THEN "returned" ELSE "drop",
                     !.ret = IF last THEN Nil ELSE Unset,
                     !.stmts = Append(@, <<"DROP TABLE", t, "ok">>)]
           \/ /\ call' = Returned(Errorf("failed to drop tables", DriverError("exec")),
                                  <<"DROP TABLE", t, "error">>)
              /\ UNCHANGED <<tables, policies, grants, rlsEnabled, objects>>
    /\ UNCHANGED <<migrateVars, serviceVars, lastCall, provisioning, roles, opNo>>

\* The caller has the result of the call; the operator is free again.
CallReturns ==
    /\ call.pc = "returned"
    /\ call' = NoCall
    /\ lastCall' = Summary(call)
    /\ UNCHANGED <<migrateVars, serviceVars, objects, provisioning, tables, roles, policies, grants,
                   rlsEnabled, opNo>>

NextAccess ==
    \/ CreateServiceRole
    \/ CreateRole
    \/ CreatePolicy
    \/ DropPolicy
    \/ EnableRLS
    \/ DisableRLS
    \/ SetupServiceRLS
    \/ SetupServicePolicy
    \/ GrantTablePermissions
    \/ GrantStatement
    \/ RevokeTablePermissions
    \/ RevokeStatement
    \/ CreateServiceRoles
    \/ CreateServiceRolesRole
    \/ grantPermissions
    \/ AutoMigrate
    \/ AutoMigrateStep
    \/ DropAllTables
    \/ DropTable
    \/ CallReturns

\* An operator provisioning access control, no Migrator running.
SpecRLS == InitRLS /\ [][NextAccess]_vars

\* The operations of the core one after another on one database: Apply runs
\* of a Migrator and calls of the provisioning layer.
SpecCore == InitCore /\ [][Next \/ NextAccess]_vars

----------------------------------------------------------------------------
(* A service process (services/user-service): the Connection it opens with *)
(* NewConnection and closes with Close, and the UserService that serves    *)
(* CreateUser and ListUsers on the repository of that Connection.          *)

\* db.SetMaxOpenConns: the most connections the pool holds.
MaxConns == 2

\* NewConnection: sql.Open, pool settings, PingContext.  It returns a
\* Connection whose pool holds the connection of the ping, or nil and an
\* error.
NewConnection ==
    /\ conn.ref = "unset"
    /\ \/ conn' = [ref |-> "set", DB |-> "open", pool |-> 1]
       \/ conn' = [conn EXCEPT !.ref = "nil"]
    /\ UNCHANGED <<migrateVars, accessVars, closeCall, svc, userRows>>

\* A Connection value that was never opened: its DB field is nil.
ZeroConnection ==
    /\ conn.ref = "unset"
    /\ conn' = [conn EXCEPT !.ref = "set"]
    /\ UNCHANGED <<migrateVars, accessVars, closeCall, svc, userRows>>

\* Connection.Ping next to requests that hold the other connections: the
\* pool opens one more connection.
Ping ==
    /\ conn.ref = "set"
    /\ conn.DB = "open"
    /\ conn.pool < MaxConns
    /\ conn' = [conn EXCEPT !.pool = @ + 1]
    /\ UNCHANGED <<migrateVars, accessVars, closeCall, svc, userRows>>

\* The run-time panic of reading a field through a nil pointer.
NilDereference == DriverError("invalid memory address or nil pointer dereference")

\* What a Close call leaves behind: how it ended, its error, and the
\* Connection it was called on.
Closed(outcome, err) == [outcome |-> outcome, ret |-> err, before |-> conn]

\* Connection.Close: if c.DB != nil { return c.DB.Close() }; return nil.
\* sql.DB.Close closes every pooled connection and returns the first error
\* of doing so; on a DB that is closed already it returns nil.
Close ==
    /\ conn.ref # "unset"
    /\ \/ /\ conn.ref = "nil"
          /\ closeCall' = Closed("panicked", NilDereference)
          /\ UNCHANGED conn
       \/ /\ conn.ref = "set"
          /\ conn.DB \in { "nil", "closed" }
          /\ closeCall' = Closed("returned", Nil)
          /\ UNCHANGED conn
       \/ /\ conn.ref = "set"
          /\ conn.DB = "open"
          /\ conn' = [conn EXCEPT !.DB = "closed", !.pool = 0]
          /\ \E err \in { Nil, DriverError("close") } :
                closeCall' = Closed("returned", err)
    /\ UNCHANGED <<migrateVars, accessVars, svc, userRows>>

\* The furthest page a request asks for.
MaxPage == 2

DefaultPageSize == 20

MaxPageSize == 100

FirstNames == { "", "John" }

Surnames == { "", "Doe" }

Emails == { "", "john@example.com" }

CreateUserRequest == [FirstName : FirstNames, Surname : Surnames, Email : Emails]

Pages == -1..MaxPage

PageSizes == { -1, 0, 1, DefaultPageSize, MaxPageSize, MaxPageSize + 1 }

ListUsersRequest == [Page : Pages, PageSize : PageSizes]

\* main has built the UserService: NewPostgresUserRepository returned a
\* repository, that is NewConnection returned a Connection.
Serving == conn.ref = "set" /\ conn.DB # "nil"

\* CreateUser: req.FirstName == "" || req.Surname == "".
MissingRequired(req) == req.FirstName = "" \/ req.Surname = ""

\* postgresUserRepository.Create succeeds: the pool is open and the INSERT
\* meets no row with the same email (the unique index of users.email).
CreateSucceeds(req) ==
    /\ conn.DB = "open"
    /\ \A row \in userRows : row.Email # req.Email

\* What a handler leaves behind: the request, the calls it made to the
\* repository, the gRPC status code and the response.
Replied(op, req, repo, code, reply) ==
    [op |-> op, req |-> req, repo |-> repo, code |-> code, reply |-> reply]

\* UserService.CreateUser.
CreateUser ==
    /\ Serving
    /\ \E req \in CreateUserRequest :
          \/ /\ MissingRequired(req)
             /\ svc' = Replied("CreateUser", req, << >>, "InvalidArgument", << >>)
             /\ UNCHANGED userRows
          \/ /\ ~MissingRequired(req)
             /\ LET repo == << [method |-> "Create", args |-> <<req>>] >>
                IN  \/ /\ CreateSucceeds(req)
                       /\ userRows' = userRows \cup { req }
                       /\ svc' = Replied("CreateUser", req, repo, "OK", <<req>>)
                    \/ /\ svc' = Replied("CreateUser", req, repo, "Internal", << >>)
                       /\ UNCHANGED userRows
    /\ UNCHANGED <<migrateVars, accessVars, conn, closeCall>>

\* ListUsers: if req.Page < 1 { req.Page = 1 }.
PageOf(page) == IF page < 1 THEN 1 ELSE page

\* Mutant of PageSizeOf: a page size above the maximum is clamped to it.
PageSizeClamped(pageSize) ==
    IF pageSize < 1 THEN DefaultPageSize
    ELSE IF pageSize > MaxPageSize THEN MaxPageSize ELSE pageSize

\* ListUsers: if req.PageSize < 1 || req.PageSize > 100 { req.PageSize = 20 }.
PageSizeOf(pageSize) ==
    IF pageSize < 1 \/ pageSize > MaxPageSize THEN DefaultPageSize ELSE pageSize

\* UserService.ListUsers.
ListUsers ==
    /\ Serving
    /\ \E req \in ListUsersRequest :
          LET page == PageOf(req.Page)
              pageSize == PageSizeOf(req.PageSize)
              repo == << [method |-> "List", args |-> <<page, pageSize>>] >>
          IN  \/ /\ conn.DB = "open"
                 /\ svc' = Replied("ListUsers", req, repo, "OK",
                                   [TotalCount |-> Cardinality(userRows),
                                    Page |-> page, PageSize |-> pageSize])
              \/ svc' = Replied("ListUsers", req, repo, "Internal", << >>)
    /\ UNCHANGED <<migrateVars, accessVars, conn, closeCall, userRows>>

NextService ==
    \/ NewConnection
    \/ ZeroConnection
    \/ Ping
    \/ Close
    \/ CreateUser
    \/ ListUsers

\* A service process from its start to the close of its Connection.
SpecService == InitService /\ [][NextService]_vars

----------------------------------------------------------------------------
(* Reading the history of a run. *)

Events(p) == DOMAIN trace[p]

Has(p, kind, v) == \E i \in Events(p) : trace[p][i] = <<kind, v>>

\* The outcomes in which a database call did not do what was asked.
FailKinds == { "EnsureErr", "LoadErr", "LoadTrunc", "BeginTxErr", "ExecSQLErr",
               "InsertErr", "CommitErr", "RollbackErr", "Panic" }

NoFailure(p) == \A i \in Events(p) : trace[p][i][1] \notin FailKinds

\* The versions reported as applied in this run, in the order reported.
AppliedSeq(p) ==
    LET applied == SelectSeq(trace[p], LAMBDA e : e[1] = "Applied")
    IN  [i \in 1..Len(applied) |-> applied[i][2]]

Ascending(vs) == \A i, j \in 1..Len(vs) : i < j => StringLess(vs[i], vs[j])

\* The events of the latest WithTransaction invocation of p.
BeginKinds == { "BeginTx", "BeginTxErr" }

LastBegin(p) ==
    CHOOSE i \in Events(p) :
        /\ trace[p][i][1] \in BeginKinds
        /\ \A j \in Events(p) : j > i => trace[p][j][1] \notin BeginKinds

Invoked(p) == \E i \in Events(p) : trace[p][i][1] \in BeginKinds

CallsOf(p, kinds) ==
    Cardinality({ i \in Events(p) : i > LastBegin(p) /\ trace[p][i][1] \in kinds })

CommitCalls(p) == CallsOf(p, { "Commit", "CommitErr" })

RollbackCalls(p) == CallsOf(p, { "Rollback", "RollbackErr" })

\* The latest WithTransaction invocation has returned or has panicked.
Ended(p) == Invoked(p) /\ (wtRet[p] # Unset \/ pc[p] = "panicked")

----------------------------------------------------------------------------
(* C1.  In every reachable state of the database, a version has a ledger   *)
(* entry if and only if its schema change is persisted, whatever the       *)
(* outcomes of applyMigration were (body error, insert error, commit       *)
(* error, panic, success).                                                 *)
C1_LedgerIffSchema ==
    \A v \in Versions : (ledger[v] > 0) <=> (schema[v] > 0)

\* A body ran inside a transaction that was then rolled back on the failing
\* ledger insert, next to a migration that is committed.
C1_Witness ==
    \E p \in procs : \E v, w \in Versions :
        /\ Has(p, "ExecSQL", w) /\ Has(p, "InsertErr", w) /\ Has(p, "Rollback", w)
        /\ pc[p] = "returned"
        /\ ledger[v] = 1 /\ schema[v] = 1

(* C2.  Two runs of Apply in succession with the same migration set and no *)
(* failing statement apply each migration exactly once: a run that returns *)
(* nil leaves every declared version with exactly one ledger entry, and    *)
(* the run after it executes no body, inserts no ledger row and reports no *)
(* applied migration.                                                      *)
C2_SecondRunAppliesNothing ==
    \A p \in procs :
        /\ (pc[p] = "returned" /\ result[p] = Nil)
              => \A v \in Declared(p) : ledger[v] = 1
        /\ (prev[p].result = Nil /\ prev[p].declared = Declared(p) /\ NoFailure(p))
              => \A i \in Events(p) :
                    trace[p][i][1] \notin { "BeginTx", "ExecSQL", "Insert", "Commit", "Applied" }

C2_Witness ==
    \E p \in procs :
        /\ prev[p].result = Nil /\ prev[p].declared = Declared(p)
        /\ Cardinality(Declared(p)) >= 2
        /\ pc[p] = "returned" /\ result[p] = Nil /\ NoFailure(p)

(* C3.  Within one run the pending migrations are applied in strictly      *)
(* ascending lexicographic order of version, whatever the order of the     *)
(* input: when the transaction of b begins, every pending migration with a *)
(* smaller version has committed in this run, and no migration with a      *)
(* smaller version commits after it.                                       *)
C3_AscendingOrder ==
    \A p \in procs : \A j \in Events(p) :
        trace[p][j][1] = "BeginTx" =>
            LET b == trace[p][j][2]
            IN  /\ \A a \in Declared(p) :
                       (StringLess(a, b) /\ a \notin appliedMap[p])
                          => \E i \in 1..(j - 1) : trace[p][i] = <<"Commit", a>>
                /\ \A i \in Events(p) :
                       (i > j /\ trace[p][i][1] = "Commit")
                          => ~StringLess(trace[p][i][2], b)

\* Three migrations handed over out of order were all applied.
C3_Witness ==
    \E p \in procs :
        /\ ~inputSorted[p]
        /\ pc[p] = "returned"
        /\ Len(AppliedSeq(p)) = Cardinality(Versions)

\* No migration whose version sorts after v had its body executed or its
\* ledger row inserted in the run of p.
NothingLaterThan(p, v) ==
    \A i \in Events(p) :
        trace[p][i][1] \in { "ExecSQL", "ExecSQLErr", "Insert", "InsertErr" }
            => ~StringLess(v, trace[p][i][2])

C5_UniqueVersions ==
    \A v \in Versions : ledger[v] <= 1

\* An insert was refused by the primary key.
C5_Witness ==
    \E p \in procs :
        /\ fnRet[p] = Errorf("failed to record migration", DriverError("unique_violation"))
        /\ pc[p] = "returned"
        /\ ledger[tx[p].v] = 1

(* C6.  Apply executes the body of a migration only if its version is      *)
(* absent from the ledger at the time the run reads it; a version that     *)
(* has a ledger entry is never executed again by a later run.              *)
C6_NoReapplication ==
    \A p \in procs : \A v \in Versions :
        (Has(p, "ExecSQL", v) \/ Has(p, "ExecSQLErr", v)) => v \notin snapshot[p]

(* C7.  On the first migration that fails in a run (begin, body, ledger    *)
(* insert or commit), Apply stops and returns an error that names the      *)
(* failing version; the migrations committed earlier in the run keep their *)
(* ledger entry and schema change, and nothing is attempted after the      *)
(* failure but the rollback of the failing transaction.                    *)
MigrationFailKinds == { "BeginTxErr", "ExecSQLErr", "InsertErr", "CommitErr" }

C7_StopsAtFirstFailure ==
    \A p \in procs : \A i \in Events(p) :
        trace[p][i][1] \in MigrationFailKinds =>
            LET v == trace[p][i][2]
            IN  /\ \A j \in Events(p) :
                       j > i => /\ trace[p][j][1] \in { "Rollback", "RollbackErr" }
                                /\ trace[p][j][2] = v
                /\ pc[p] \in { "rollback", "returned" }
                /\ pc[p] = "returned"
                      => /\ result[p] # Nil
                         /\ Head(result[p]) = <<"failed to apply migration", v, Nil>>
                /\ \A j \in 1..(i - 1) :
                       trace[p][j][1] = "Commit"
                          => /\ ledger[trace[p][j][2]] = 1
                             /\ schema[trace[p][j][2]] = 1

\* A run that committed one migration, failed at the next and returned with
\* a third one never attempted.
C7_Witness ==
    \E p \in procs : \E i \in Events(p) :
        /\ trace[p][i][1] \in { "ExecSQLErr", "InsertErr" }
        /\ pc[p] = "returned"
        /\ Len(AppliedSeq(p)) >= 1
        /\ idx[p] < Len(migrations[p])

\* The previous run of p returned the error of a failing migration.
PrevFailed(p) ==
    /\ prev[p].result # Nil
    /\ Head(prev[p].result)[1] = "failed to apply migration"

PrevFailedAt(p) == Head(prev[p].result)[2]

(* C8.  After a run that failed at a version, a later run of Apply in      *)
(* which no statement fails resumes: it executes the body of no version    *)
(* that the ledger already holds, applies the versions that were pending   *)
(* (the one that failed before, unless it was committed after all, and     *)
(* every later one) in ascending order, and the ledger ends with every     *)
(* declared version exactly once.                                          *)
C8_ResumeAfterFailure ==
    \A p \in procs :
        (PrevFailed(p) /\ PrevFailedAt(p) \in Declared(p) /\ NoFailure(p)) =>
            /\ \A v \in snapshot[p] :
                   ~Has(p, "BeginTx", v) /\ ~Has(p, "ExecSQL", v)
            /\ Ascending(AppliedSeq(p))
            /\ (pc[p] = "returned" /\ result[p] = Nil) =>
                   /\ Range(AppliedSeq(p)) = Declared(p) \ snapshot[p]
                   /\ \A v \in Declared(p) : ledger[v] = 1

\* The run before stopped at "10" with "1" applied; this run skipped "1" and
\* applied "10" and then "2".
C8_Witness ==
    \E p \in procs :
        /\ PrevFailed(p) /\ PrevFailedAt(p) = <<1, 0>>
        /\ snapshot[p] = { <<1>> }
        /\ Declared(p) = Versions /\ prev[p].declared = Versions
        /\ pc[p] = "returned" /\ result[p] = Nil /\ NoFailure(p)
        /\ AppliedSeq(p) = << <<1, 0>>, <<2>> >>

C10_ReturnsFnError ==
    \A p \in procs :
        (Invoked(p) /\ wtRet[p] # Unset) =>
            /\ (fnRet[p] \notin { Nil, Unset } /\ CallsOf(p, { "Rollback" }) = 1)
                  => wtRet[p] = fnRet[p] /\ CommitCalls(p) = 0
            /\ wtRet[p] = Nil
                  => fnRet[p] = Nil /\ CallsOf(p, { "Commit" }) = 1

\* fn failed on the ledger insert, the rollback succeeded, and the call
\* returned fn's error.
C10_Witness ==
    \E p \in procs :
        /\ wtRet[p] = Errorf("failed to record migration", DriverError("unique_violation"))
        /\ CallsOf(p, { "Rollback" }) = 1

----------------------------------------------------------------------------
(* C11.  When fn fails inside WithTransaction and the rollback fails too,  *)
(* the returned error is distinct from fn's error and wraps both causes:   *)
(* fn's error and the rollback error are both found in its wrap chain.     *)
C11_WrapsBothCauses ==
    \A p \in procs :
        (Invoked(p) /\ wtRet[p] # Unset /\ fnRet[p] \notin { Nil, Unset }
                    /\ CallsOf(p, { "RollbackErr" }) = 1)
            => /\ wtRet[p] # fnRet[p]
               /\ Is(wtRet[p], DriverError("rollback"))
               /\ Is(wtRet[p], fnRet[p])

(* C12.  When fn panics inside WithTransaction, the transaction is rolled  *)
(* back before the panic reaches the caller, the value the caller sees is  *)
(* the value fn panicked with, and no commit is performed for that         *)
(* invocation: nothing the transaction wrote is persisted.                 *)
C12_RollbackBeforeRepanic ==
    \A p \in procs :
        /\ pc[p] = "recover"
              => /\ panicValue[p].fn \in PanicValues /\ panicValue[p].out = NoPanic
                 /\ CommitCalls(p) = 0
        /\ pc[p] = "panicked"
              => /\ panicValue[p].fn \in PanicValues
                 /\ panicValue[p].out = panicValue[p].fn
                 /\ RollbackCalls(p) = 1 /\ CommitCalls(p) = 0
                 /\ trace[p][Len(trace[p])][1] \in { "Rollback", "RollbackErr" }
                 /\ trace[p][Len(trace[p]) - 1][1] = "Panic"
                 /\ tx[p].st = "rolledback"
                 /\ wtRet[p] = Unset
        /\ panicValue[p].fn # NoPanic => pc[p] \in { "recover", "panicked" }

\* fn panicked in the ledger insert after the body was executed, the
\* rollback of the deferred function returned an error, and the panic has
\* reached the caller.
C12_Witness ==
    \E p \in procs :
        /\ pc[p] = "panicked"
        /\ panicValue[p].out = "panic in insert"
        /\ tx[p].body /\ Has(p, "RollbackErr", tx[p].v)
        /\ ledger[tx[p].v] = 0 /\ schema[tx[p].v] = 0

\* The error fn returns on a primary-key conflict of the ledger insert.
ConflictError == Errorf("failed to record migration", DriverError("unique_violation"))

\* The run of p lost the ledger insert of v to the other Migrator: the
\* insert was refused, and the row it collided with was neither in the
\* ledger when p read it nor committed by p.
LostInsert(p, v) ==
    /\ Has(p, "InsertErr", v) /\ tx[p].v = v /\ fnRet[p] = ConflictError
    /\ v \notin snapshot[p]
    /\ ~Has(p, "Commit", v) /\ ~Has(p, "CommitErr", v)

(* C13.  When two Migrators run Apply concurrently and both see a version  *)
(* as not applied, one wins the ledger insert, and the other treats the    *)
(* primary-key conflict as "already applied": it returns no failure for    *)
(* that version and goes on with the remaining migrations.                 *)
C13_ConflictIsAlreadyApplied ==
    \A p \in procs : \A v \in Versions :
        (LostInsert(p, v) /\ pc[p] \in { "loop", "returned" })
            => /\ ledger[v] = 1
               /\ pc[p] = "returned" => result[p] = Nil
               /\ wtRet[p] = Nil

(* C14.  The applied-version set a run checks against is read in the same  *)
(* scope as the decision that follows: when a run is about to decide that  *)
(* a version is pending, no other Migrator has committed that version      *)
(* since the run read the ledger.                                          *)
C14_NoCommitBetweenReadAndDecision ==
    \A p \in procs :
        (pc[p] = "loop" /\ idx[p] <= Len(migrations[p]) /\ ~IsApplied(p, Current(p)))
            => LET v == Current(p).Version
               IN  \/ ledger[v] = 0
                   \/ v \in snapshot[p]
                   \/ Has(p, "Commit", v) \/ Has(p, "CommitErr", v)

\* The ways creating or reading the ledger can fail.
LedgerFailKinds == { "EnsureErr", "LoadErr", "LoadTrunc" }

\* Nothing of a migration was attempted in the run of p.
NoMigrationAttempted(p) ==
    \A i \in Events(p) :
        trace[p][i][1] \notin { "BeginTx", "BeginTxErr", "ExecSQL", "ExecSQLErr",
                                "Insert", "InsertErr", "Commit", "CommitErr" }

(* C15.  If creating the ledger table or reading the ledger fails, Apply   *)
(* returns that error before any migration is attempted: no transaction is *)
(* begun, no body is executed and no ledger row is inserted in that run.   *)
C15_LedgerFailureAbortsRun ==
    \A p \in procs : \A i \in Events(p) :
        trace[p][i][1] \in LedgerFailKinds
            => /\ NoMigrationAttempted(p)
               /\ pc[p] = "returned" /\ result[p] # Nil

----------------------------------------------------------------------------
(* C16.  The ledger is append-only: no step of any core operation (an      *)
(* Apply run that succeeds or fails, ensureMigrationsTable on an existing  *)
(* table, role provisioning, an RLS operation, the reset) removes a ledger *)
(* entry or changes the applied_at of an entry that exists, and the ledger *)
(* table, once there, stays.                                               *)
C16_LedgerAppendOnly ==
    [][/\ tableExists => tableExists'
       /\ \A v \in Versions :
              /\ ledger'[v] >= ledger[v]
              /\ ledger[v] > 0 => appliedAt'[v] = appliedAt[v]]_vars

\* The entry of an earlier deployment and an entry added by an Apply run are
\* both there, unchanged, after the reset that followed the run.
C16_Witness ==
    /\ ledger[<<1>>] = 1 /\ appliedAt[<<1>>] = EarlierDeployment
    /\ ledger[<<2>>] = 1 /\ appliedAt[<<2>>] = <<1, 1>>
    /\ call.op = "DropAllTables" /\ call.pc = "returned" /\ call.ret = Nil
    /\ tables = {}

(* C17.  Creating a role is idempotent: role creation for a name whose     *)
(* role exists (CreateServiceRole, and the role step of CreateServiceRoles)*)
(* returns success, issues no CREATE ROLE and leaves the password of the   *)
(* role as it was, whatever password is passed; creating the same role     *)
(* twice in succession never errors.                                       *)
C17_RoleCreationIdempotent ==
    /\ (call.op = "CreateServiceRole" /\ call.pc = "returned"
            /\ call.before # NoRole /\ call.stmts[1][3] = "ok")
          => /\ call.ret = Nil
             /\ Len(call.stmts) = 1
             /\ roles[Fold(call.args[1])] = call.before
    /\ call.op = "CreateServiceRoles"
          => \A k \in DOMAIN call.stmts :
                LET name == call.stmts[k][2]
                IN  (call.stmts[k][1] \in { "DO CREATE ROLE", "DO NOTHING" }
                        /\ call.before.roles[name] # NoRole)
                      => /\ call.stmts[k][1] = "DO NOTHING"
                         /\ roles[name] = call.before.roles[name]

(* C18.  CreatePolicy is not idempotent: called for a (name, table) pair   *)
(* that has a policy it returns an error that names the policy, and the    *)
(* policy that was there keeps its command, role and predicates; it        *)
(* returns nil only when the pair had no policy, and then the pair has the *)
(* policy of the call.                                                     *)
C18_DuplicatePolicyRefused ==
    (call.op = "CreatePolicy" /\ call.pc = "returned") =>
        LET key == <<call.args.Name, call.args.Table>>
        IN  /\ call.before # NoPolicy
                  => /\ call.ret # Nil
                     /\ Head(call.ret) = <<"failed to create policy", call.args.Name, Nil>>
                     /\ policies[key] = call.before
            /\ call.ret = Nil
                  => call.before = NoPolicy /\ policies[key] = PolicyOf(call.args)
            /\ call.ret # Nil => policies[key] = call.before

\* A second CreatePolicy for the pair, with another command and another
\* WITH CHECK, was refused as a duplicate.
C18_Witness ==
    /\ call.op = "CreatePolicy" /\ call.pc = "returned"
    /\ call.before # NoPolicy
    /\ call.before.Command # call.args.Command
    /\ call.before.WithCheck # call.args.WithCheck
    /\ call.ret = ErrorfArgs("failed to create policy", call.args.Name,
                             DriverError("duplicate_object"))

\* The number of statements of the call that succeeded.
Applied == Cardinality({ k \in DOMAIN call.stmts : call.stmts[k][3] = "ok" })

\* The privileges of the list whose statement succeeded.
AppliedPrivileges == { call.args[3][k] : k \in 1..Applied }

(* C19.  GrantTablePermissions and RevokeTablePermissions execute one      *)
(* statement per privilege in the order of the list; at the first          *)
(* statement that fails the call returns an error that names that          *)
(* privilege, the table and the role; the privileges before it stay        *)
(* granted (revoked), nothing is undone or retried, and the privileges     *)
(* after it are never attempted.                                           *)
C19_StopsAtFirstFailedPrivilege ==
    call.op \in { "GrantTablePermissions", "RevokeTablePermissions" } =>
        LET grant == call.op = "GrantTablePermissions"
            tableName == call.args[1]
            roleName == call.args[2]
            permissions == call.args[3]
            n == Len(call.stmts)
        IN  /\ n <= Len(permissions)
            /\ \A k \in 1..n :
                   /\ call.stmts[k][1] = (IF grant THEN "GRANT" ELSE "REVOKE")
                   /\ call.stmts[k][2] = <<permissions[k], tableName, roleName>>
                   /\ call.stmts[k][3] = "error" => k = n /\ call.pc = "returned"
            /\ GrantedOn(tableName, Fold(roleName))
                  = (IF grant THEN call.before \cup AppliedPrivileges
                     ELSE call.before \ AppliedPrivileges)
            /\ call.pc = "returned" =>
                   IF Applied = n
                   THEN call.ret = Nil /\ n = Len(permissions)
                   ELSE /\ call.ret # Nil
                        /\ Head(call.ret) =
                              <<IF grant THEN "failed to grant" ELSE "failed to revoke",
                                <<permissions[n], tableName, roleName>>, Nil>>

\* A grant of three privileges failed at the second: the first is granted,
\* the third was never attempted.
C19_Witness ==
    /\ call.op = "GrantTablePermissions" /\ call.pc = "returned"
    /\ call.args[3] = <<"SELECT", "UPDATE", "SELECT">>
    /\ Len(call.stmts) = 2 /\ call.stmts[2][3] = "error"
    /\ call.before = {}
    /\ GrantedOn(call.args[1], Fold(call.args[2])) = { "SELECT" }

\* What the message of an error shows: the operands formatted into it and
\* into the errors it wraps.
MessageOperands(err) == UNION { Range(err[k][2]) : k \in DOMAIN err }

(* C20.  When a grant fails partway, the result returned to the caller     *)
(* exposes, next to the failure, the count of the privileges that were     *)
(* applied before it.                                                      *)
C20_ResultExposesAppliedCount ==
    (call.op = "GrantTablePermissions" /\ call.pc = "returned" /\ call.ret # Nil)
        => ToString(Applied) \in MessageOperands(call.ret)

----------------------------------------------------------------------------
(* SetupServiceRLS. *)

\* The SetupServiceRLS call that has returned, and its arguments.
SetupReturned == call.op = "SetupServiceRLS" /\ call.pc = "returned"

\* C21: a successful SetupServiceRLS(service, table, fullAccess) has enabled
\* row level security on the table and created exactly one policy: on that
\* table, for the role service, with the predicate true and no WITH CHECK,
\* and the command ALL when fullAccess is true and SELECT when it is false.
\* When enabling row level security fails, no policy is created.
C21_SetupCreatesOnePolicy ==
    SetupReturned =>
        LET serviceName == call.args[1]
            tableName == call.args[2]
            fullAccess == call.args[3]
            created == { k \in PolicyKeys : policies[k] # call.before.policies[k] }
        IN  /\ call.ret = Nil =>
                  /\ tableName \in rlsEnabled
                  /\ Cardinality(created) = 1
                  /\ \A k \in created :
                        /\ k[2] = tableName
                        /\ call.before.policies[k] = NoPolicy
                        /\ policies[k] = [Command |-> IF fullAccess THEN "ALL" ELSE "SELECT",
                                           Role |-> Fold(serviceName),
                                           Using |-> "true",
                                           WithCheck |-> ""]
            /\ call.stmts[1][3] = "error" =>
                  /\ call.ret # Nil
                  /\ Len(call.stmts) = 1
                  /\ policies = call.before.policies

C21_Witness ==
    /\ SetupReturned
    /\ call.ret = Nil
    /\ call.args = <<"Analytics", "users", FALSE>>
    /\ policies[<<"analytics_select_users", "users">>].Command = "SELECT"

\* C22: after a successful SetupServiceRLS(reader, users, fullAccess=false),
\* a connection authenticated as reader can SELECT from users, and its
\* INSERT, UPDATE and DELETE on users are all rejected.
C22_ReaderSelectsOnly ==
    (SetupReturned /\ call.ret = Nil /\ ~call.args[3]) =>
        LET reader == Fold(call.args[1])
            users == call.args[2]
        IN  /\ CanPerform(reader, users, "SELECT")
            /\ \A command \in { "INSERT", "UPDATE", "DELETE" } :
                  ~CanPerform(reader, users, command)

\* C23: after a successful SetupServiceRLS(writer, users, fullAccess=true), a
\* connection authenticated as writer can SELECT, INSERT, UPDATE and DELETE
\* on users.
C23_WriterHasFullAccess ==
    (SetupReturned /\ call.ret = Nil /\ call.args[3]) =>
        LET writer == Fold(call.args[1])
            users == call.args[2]
        IN  \A command \in CRUD : CanPerform(writer, users, command)

----------------------------------------------------------------------------
(* CreateServiceRoles, the provision-roles action. *)

\* The privileges of the grant steps 1..n of grantPermissions.
GrantsOfSteps(n) ==
    UNION { { <<tp[1], ServiceGrants[i].role, tp[2]>> : tp \in ServiceGrants[i].privileges }
            : i \in 1..n }

\* The driver error at the bottom of an error's wrap chain.
Cause(err) == err[Len(err)][1]

\* C24: after a successful CreateServiceRoles, user_service holds SELECT,
\* INSERT, UPDATE, DELETE on users and SELECT only on files and folders;
\* file_service holds SELECT, INSERT, UPDATE, DELETE on files and folders and
\* SELECT only on users; analytics_reader holds SELECT only on users, files
\* and folders: no role holds a write privilege on a table it does not own.
C24_PrivilegeTopology ==
    (call.op = "CreateServiceRoles" /\ call.pc = "returned" /\ call.ret = Nil) =>
        /\ GrantedOn("users", "user_service") = CRUD
        /\ GrantedOn("files", "user_service") = { "SELECT" }
        /\ GrantedOn("folders", "user_service") = { "SELECT" }
        /\ GrantedOn("files", "file_service") = CRUD
        /\ GrantedOn("folders", "file_service") = CRUD
        /\ GrantedOn("users", "file_service") = { "SELECT" }
        /\ \A t \in ManagedTables : GrantedOn(t, "analytics_reader") = { "SELECT" }

\* C25: in CreateServiceRoles every role is created or found before any
\* privilege is granted; when the creation of a role fails the call returns
\* an error and no grant was applied; when a grant step fails the call
\* returns an error, the grants of the steps before it are in effect and no
\* later step was attempted.  A call that follows a successful call leaves
\* the roles and the grants as they were and is refused by nothing in the
\* database.
C25_RolesBeforeGrants ==
    call.op = "CreateServiceRoles" =>
        LET n == Len(call.stmts)
            roleSteps == { k \in 1..n : call.stmts[k][1] # "GRANT" }
            grantSteps == { k \in 1..n : call.stmts[k][1] = "GRANT" }
            failed == { k \in 1..n : call.stmts[k][3] = "error" }
        IN  /\ \A k \in grantSteps :
                  /\ k > Len(ServiceRoles)
                  /\ \A i \in 1..Len(ServiceRoles) :
                        /\ call.stmts[i] \in { <<"DO CREATE ROLE", ServiceRoles[i].name, "ok">>,
                                                <<"DO NOTHING", ServiceRoles[i].name, "ok">> }
                        /\ roles[ServiceRoles[i].name] # NoRole
            /\ \A k \in failed :
                  /\ k = n
                  /\ call.pc = "returned" /\ call.ret # Nil
                  /\ k \in roleSteps => grantSteps = {} /\ grants = call.before.grants
                  /\ k \in grantSteps =>
                        grants = call.before.grants \cup GrantsOfSteps(k - Len(ServiceRoles) - 1)
            /\ (lastCall.op = "CreateServiceRoles" /\ lastCall.outcome # "fatal error") =>
                  /\ roles = call.before.roles
                  /\ grants = call.before.grants
                  /\ (call.pc = "returned" /\ call.ret # Nil) => Cause(call.ret) = "exec"

\* A grant step failed after an earlier one took effect, on roles the call
\* created itself.
C25_Witness ==
    /\ call.op = "CreateServiceRoles" /\ call.pc = "returned"
    /\ Len(call.stmts) = Len(ServiceRoles) + 2
    /\ call.stmts[Len(call.stmts)] = <<"GRANT", "file_service", "error">>
    /\ call.before.roles["file_service"] = NoRole
    /\ GrantedOn("users", "user_service") = CRUD
    /\ GrantedOn("files", "file_service") = {}

----------------------------------------------------------------------------
(* DropAllTables, the reset action. *)

\* The tables of the DROP TABLE statements the call has issued, in order.
DropsIssued == [k \in 1..Len(call.stmts) |-> call.stmts[k][2]]

\* The managed tables that existed when statement k was issued.
ExistingAt(k) ==
    call.before.tables \ { call.stmts[j][2] : j \in 1..(k - 1) }

\* C26: DropAllTables drops files, then folders, then users, so that no
\* table is dropped while another managed table with a foreign key to it
\* exists; the first failing drop ends the call with an error and no
\* further drop is attempted.
C26_ReverseDependencyOrder ==
    call.op = "DropAllTables" =>
        /\ DropsIssued = SubSeq(<< "files", "folders", "users" >>, 1, Len(call.stmts))
        /\ \A k \in 1..Len(call.stmts) :
              /\ \A t \in ExistingAt(k) \ { call.stmts[k][2] } :
                    <<t, call.stmts[k][2]>> \notin ForeignKeys
              /\ call.stmts[k][3] = "error" =>
                    /\ k = Len(call.stmts)
                    /\ call.pc = "returned" /\ call.ret # Nil

----------------------------------------------------------------------------
(* AutoMigrate, the migrate action. *)

\* The statements the migrate action is to issue, in order: the extensions,
\* the run of the versioned Migrator, the constraints and triggers.
MigrateOrder ==
    [i \in 1..Len(MigrateSteps) |->
        IF MigrateSteps[i].verb = "db.AutoMigrate" THEN "Migrator.Apply"
        ELSE MigrateSteps[i].verb]

\* C27: the migrate action ensures the extensions, then runs the versioned
\* Migrator over the declared migrations, so that what it applied is in the
\* ledger, then applies the constraints and triggers; a failing step
\* returns an error and no later step is attempted.
C27_MigrateRunsMigrator ==
    call.op = "AutoMigrate" =>
        /\ \A k \in 1..Len(call.stmts) :
              /\ call.stmts[k][1] = MigrateOrder[k]
              /\ call.stmts[k][3] = "error" =>
                    /\ k = Len(call.stmts)
                    /\ call.pc = "returned" /\ call.ret # Nil
        /\ (call.pc = "returned" /\ call.ret = Nil) =>
              /\ Len(call.stmts) = Len(MigrateSteps)
              /\ tableExists

\* The constraints and triggers of addCustomConstraints.
CustomObjects ==
    { MigrateSteps[i].object : i \in { k \in FirstConstraintStep..Len(MigrateSteps) :
                                         MigrateSteps[k].object[1] # "function" } }

\* C28: after a successful AutoMigrate the database holds exactly one
\* constraint users_email_format_check, exactly one constraint
\* folders_no_self_parent_check and exactly one trigger
\* update_<table>_updated_at on each of users, files and folders; an
\* AutoMigrate that follows a successful one is refused by nothing in the
\* database and leaves these objects as they were.
C28_ConstraintStepIdempotent ==
    call.op = "AutoMigrate" =>
        /\ (call.pc = "returned" /\ call.ret = Nil) =>
              \A c \in CustomObjects :
                 Cardinality({ o \in objects : o[1] = c[1] /\ o[2] = c[2] }) = 1
        /\ (lastCall.op = "AutoMigrate" /\ lastCall.outcome # "fatal error") =>
              /\ CustomObjects \subseteq objects
              /\ (call.pc = "returned" /\ call.ret # Nil) => Cause(call.ret) = "exec"

\* A second run in succession went through all its statements.
C28_Witness ==
    /\ call.op = "AutoMigrate" /\ call.pc = "returned" /\ call.ret = Nil
    /\ lastCall.op = "AutoMigrate" /\ lastCall.outcome = "applied changes"
    /\ call.stmts[FirstConstraintStep] =
           <<"DO ADD CONSTRAINT", "users_email_format_check", "ok">>
    /\ CustomObjects \subseteq objects

----------------------------------------------------------------------------
(* The result and exit status of the actions of cmd/migrate. *)

\* C29: the result and the exit status of an orchestrator action tell the
\* outcomes "nothing to do", "applied N changes" and "fatal error" apart:
\* two runs of an action that report the same had the same outcome.
C29_ReportTellsOutcomesApart ==
    (/\ call.op \in OrchestratorActions
     /\ call.pc = "returned"
     /\ lastCall.op = call.op
     /\ Report(call.ret) = lastCall.report)
        => Outcome(call) = lastCall.outcome

----------------------------------------------------------------------------
(* Cancellation. *)

\* C30: when the context is cancelled while the transaction of
\* WithTransaction is in flight (fn is running, or fn has returned and the
\* commit has not completed), the transaction has been rolled back when the
\* call returns, nothing of it is persisted and the call returns an error.
C30_RolledBackBeforeReturn ==
    \A p \in procs :
        (pc[p] = "returned" /\ Has(p, "CancelInTx", tx[p].v)) =>
            /\ tx[p].st = "rolledback"
            /\ wtRet[p] # Nil
            /\ result[p] # Nil

----------------------------------------------------------------------------
(* The service process. *)

\* C31: Connection.Close is safe in every lifecycle state: on an open
\* Connection it releases the pool; on a closed one, on a never-opened one
\* and on the value a failed NewConnection returned it returns nil, does not
\* panic and changes nothing.
C31_CloseSafeEverywhere ==
    closeCall.outcome # "none" =>
        IF closeCall.before.ref = "set" /\ closeCall.before.DB = "open"
        THEN conn.DB = "closed" /\ conn.pool = 0 /\ closeCall.outcome = "returned"
        ELSE /\ closeCall.outcome = "returned"
             /\ closeCall.ret = Nil
             /\ conn = closeCall.before

\* C32: CreateUser answers a request without first name, surname or email
\* with InvalidArgument and makes no call to the repository.
C32_RequiredFieldsChecked ==
    (svc.op = "CreateUser"
        /\ (svc.req.FirstName = "" \/ svc.req.Surname = "" \/ svc.req.Email = ""))
        => svc.code = "InvalidArgument" /\ svc.repo = << >>

----------------------------------------------------------------------------
(* Two Migrators, late versions and duplicates. *)

\* The transactions that committed version v, as <<Migrator, event>>.
CommitsOf(v) ==
    UNION { { <<p, i>> : i \in { j \in Events(p) : trace[p][j] = <<"Commit", v>> } }
            : p \in procs }

\* C34: with two Apply runs interleaved on one database, at most one
\* transaction that applies a version commits and its schema change is
\* never persisted twice; the transaction of the run that loses the ledger
\* insert is rolled back and nothing of its body stays.
C34_OneCommitPerVersion ==
    \A v \in Versions :
        /\ Cardinality(CommitsOf(v)) <= 1
        /\ schema[v] <= 1
        /\ \A p \in procs :
              (LostInsert(p, v) /\ pc[p] \in { "loop", "returned" })
                  => /\ tx[p].st = "rolledback"
                     /\ schema[v] = ledger[v]
                     /\ CallsOf(p, { "Commit", "CommitErr" }) = 0

\* Both Migrators executed the body of one version; one committed it and the
\* other lost the ledger insert and has returned.
C34_Witness ==
    \E p, q \in procs : \E v \in Versions :
        /\ p # q
        /\ Has(p, "Commit", v)
        /\ Has(q, "ExecSQL", v) /\ LostInsert(q, v)
        /\ pc[q] = "returned"
        /\ schema[v] = 1

\* Every failure of the run of p is a ledger insert refused by the primary
\* key: the driver, the connection and the ledger read did not fail.
Faultless(p) ==
    \A i \in Events(p) :
        trace[p][i][1] \in FailKinds
            => trace[p][i][1] = "InsertErr" /\ fnRet[p] = ConflictError

\* The run of p has come to position i of its list for the first migration
\* with that version, which the ledger did not hold.
Pending(p, i) ==
    /\ i <= idx[p]
    /\ migrations[p][i].Version \notin snapshot[p]
    /\ \A j \in 1..(i - 1) : migrations[p][j].Version # migrations[p][i].Version

\* C35: a migration whose body records its own version in schema_migrations
\* with ON CONFLICT DO NOTHING is applied by Apply: the run commits it,
\* returns no error for it, and the ledger holds one entry for the version.
C35_SelfRecordingApplied ==
    \A p \in procs : \A i \in 1..Len(migrations[p]) :
        (/\ pc[p] = "returned"
         /\ Faultless(p)
         /\ Pending(p, i)
         /\ migrations[p][i].SQL = SelfRecording)
            => /\ idx[p] > i
               /\ Has(p, "Commit", migrations[p][i].Version)
               /\ ledger[migrations[p][i].Version] = 1

\* The ledger held a version above v when the run of p read it.
BelowApplied(p, v) == \E w \in snapshot[p] : StringLess(v, w)

\* C36: when Apply returns nil every declared version has a ledger entry; a
\* declared version below the highest version of the ledger is applied by
\* the run, neither skipped nor rejected; and the ledger entries of versions
\* that are not declared stay as they were and cause no error.
C36_LateLowerVersionApplied ==
    \A p \in procs :
        /\ (pc[p] = "returned" /\ result[p] = Nil) =>
              /\ \A v \in Declared(p) : ledger[v] > 0
              /\ \A v \in Declared(p) \ snapshot[p] :
                    BelowApplied(p, v) => Has(p, "Commit", v) /\ Has(p, "Applied", v)
        /\ (pc[p] = "returned" /\ NoFailure(p)) => result[p] = Nil
        /\ \A v \in snapshot[p] \ Declared(p) :
              /\ ledger[v] = 1
              /\ appliedAt[v] # <<p, runNo[p]>>
              /\ ~Has(p, "BeginTx", v)

\* The ledger held "2" alone; a run that declared "1" alone has applied it
\* and returned nil.
C36_Witness ==
    \E p \in procs :
        /\ snapshot[p] = { <<2>> }
        /\ Declared(p) = { <<1>> }
        /\ pc[p] = "returned" /\ result[p] = Nil
        /\ Has(p, "Commit", <<1>>)
        /\ ledger[<<1>>] = 1 /\ ledger[<<2>>] = 1

\* How often the run of p logged the event kind for version v.
Count(p, kind, v) == Cardinality({ k \in Events(p) : trace[p][k] = <<kind, v>> })

\* C37: when the list handed to Apply declares a pending version twice, the
\* run commits the first of the two in sorted position, executes the second
\* in a transaction that is rolled back on the primary-key conflict of the
\* ledger insert, and returns an error that names the version; the applied
\* versions are not read again during the run.
C37_DuplicateVersionFails ==
    \A p \in procs : \A i, j \in 1..Len(migrations[p]) :
        (/\ pc[p] = "returned"
         /\ Faultless(p)
         /\ i < j /\ j <= idx[p]
         /\ migrations[p][i].Version = migrations[p][j].Version
         /\ migrations[p][i].Version \notin snapshot[p])
            => LET v == migrations[p][i].Version
               IN  /\ idx[p] = j /\ j = i + 1
                   /\ Count(p, "Commit", v) = 1
                   /\ Count(p, "ExecSQL", v) = 2
                   /\ Count(p, "Rollback", v) = 1
                   /\ tx[p].v = v /\ tx[p].st = "rolledback"
                   /\ result[p] = ApplyErrorf(v, ConflictError)
                   /\ ledger[v] = 1 /\ schema[v] = 1
                   /\ v \notin appliedMap[p]

\* A run over "1", "2", "2" on an empty ledger has stopped at the second
\* "2" with "1" and "2" committed.
C37_Witness ==
    \E p \in procs :
        /\ pc[p] = "returned"
        /\ Faultless(p)
        /\ Len(migrations[p]) = 3
        /\ migrations[p][1].Version = <<1>>
        /\ migrations[p][2].Version = <<2>>
        /\ migrations[p][3].Version = <<2>>
        /\ idx[p] = 3
        /\ snapshot[p] = {}
        /\ result[p] = ApplyErrorf(<<2>>, ConflictError)
        /\ ledger[<<1>>] = 1 /\ ledger[<<2>>] = 1

\* The run of p has read the ledger: GetAppliedMigrations returned a nil
\* error.
LedgerRead(p) == pc[p] \notin { "idle", "ensure", "load" } /\ ~Has(p, "LoadErr", NoVersion)

\* C38: GetAppliedMigrations returns every ledger entry or an error, never
\* a truncated list with a nil error, so Apply never takes a version the
\* ledger holds for pending because reading the rows failed.
C38_ReadsAllOrFails ==
    \A p \in procs :
        LedgerRead(p) =>
            /\ appliedMap[p] = snapshot[p]
            /\ \A v \in snapshot[p] : ~Has(p, "BeginTx", v)

----------------------------------------------------------------------------
(* SetupServiceRLS called again. *)

\* The commands that the policies pols let role run on table.
PolicyCommands(pols, role, table) ==
    { command \in CRUD :
        \E k \in PolicyKeys :
            /\ k[2] = table
            /\ pols[k] # NoPolicy
            /\ pols[k].Role = role
            /\ pols[k].Command \in { "ALL", command } }

\* C39: SetupServiceRLS removes and replaces no policy.  Called with
\* fullAccess=false where <service>_all_<table> exists it adds
\* <service>_select_<table> and leaves <service>_all_<table> in place, so
\* the commands the policies of a role permit on a table never shrink.
C39_SetupKeepsPolicies ==
    call.op = "SetupServiceRLS" =>
        /\ \A k \in PolicyKeys :
              call.before.policies[k] # NoPolicy => policies[k] = call.before.policies[k]
        /\ \A role \in PgRoleNames, table \in InputTables :
              PolicyCommands(call.before.policies, role, table)
                  \subseteq PolicyCommands(policies, role, table)
        /\ (call.pc = "returned" /\ call.ret = Nil /\ ~call.args[3]) =>
              LET allKey == PolicyKey(SetupPolicy(call.args[1], call.args[2], TRUE))
                  selectKey == PolicyKey(SetupPolicy(call.args[1], call.args[2], FALSE))
              IN  /\ call.before.policies[selectKey] = NoPolicy
                  /\ policies[selectKey].Command = "SELECT"
                  /\ policies[allKey] = call.before.policies[allKey]

\* SetupServiceRLS(user_service, users, false) has succeeded where the
\* policy user_service_all_users existed, and the role's policies still
\* permit every command.
C39_Witness ==
    /\ SetupReturned
    /\ call.ret = Nil
    /\ call.args = <<"user_service", "users", FALSE>>
    /\ call.before.policies[<<"user_service_all_users", "users">>].Command = "ALL"
    /\ policies[<<"user_service_all_users", "users">>].Command = "ALL"
    /\ policies[<<"user_service_select_users", "users">>].Command = "SELECT"
    /\ PolicyCommands(policies, "user_service", "users") = CRUD

\* C40: SetupServiceRLS is neither idempotent nor atomic.  A second call
\* with the same service, table and access level enables row level security
\* again and then returns the duplicate-policy error of CreatePolicy with
\* the policies unchanged; and when CreatePolicy fails after EnableRLS
\* succeeded, the table keeps row level security and has no new policy.
C40_SetupNotIdempotentNotAtomic ==
    SetupReturned =>
        LET cfg == SetupPolicy(call.args[1], call.args[2], call.args[3])
            key == PolicyKey(cfg)
        IN  /\ (call.before.policies[key] # NoPolicy /\ call.stmts[1][3] = "ok") =>
                  /\ Len(call.stmts) = 2
                  /\ call.stmts[2] = <<"CREATE POLICY", key, "error">>
                  /\ call.ret = ErrorfArgs("failed to create policy", cfg.Name,
                                           DriverError("duplicate_object"))
                  /\ policies = call.before.policies
            /\ (Len(call.stmts) = 2 /\ call.stmts[2][3] = "error") =>
                  /\ call.ret # Nil
                  /\ call.args[2] \in rlsEnabled
                  /\ policies = call.before.policies

\* The second SetupServiceRLS(user_service, users, true) has returned the
\* duplicate-policy error, on a table that had row level security already.
C40_Witness ==
    /\ SetupReturned
    /\ call.args = <<"user_service", "users", TRUE>>
    /\ call.before.policies[<<"user_service_all_users", "users">>] # NoPolicy
    /\ "users" \in call.before.rlsEnabled
    /\ call.stmts[1][3] = "ok"
    /\ call.ret = ErrorfArgs("failed to create policy", "user_service_all_users",
                             DriverError("duplicate_object"))
    /\ "users" \in rlsEnabled

====
